---- MODULE Spec2Model ----
(***************************************************************************)
(* Spellcaster Portal: document indexing and search engine.                *)
(*                                                                         *)
(* Text is modelled as a sequence of one-character strings, so that the    *)
(* cleaner, the query compiler and the snippet code are computed character *)
(* by character as the Python source computes them.                        *)
(***************************************************************************)
EXTENDS Integers, Sequences, FiniteSets, TLC

\* ------------------------------------------------------------------------
\* Bounds of the model (not program constants)
\* ------------------------------------------------------------------------
MaxClock == 1
MaxId == 3
MaxFrags == 3
MaxCreated == 1
MaxBacks == 1
MaxPieces == 4
MaxRelpath == 5

\* ------------------------------------------------------------------------
\* Characters and character classes (Python str / re semantics)
\* ------------------------------------------------------------------------
SHY == "SHY"                      \* U+00AD soft hyphen
ZWSP == "ZWSP"                    \* U+200B zero width space
WJ == "WJ"                        \* U+2060 word joiner
COMB == "COMB"                    \* U+0301 combining acute accent
EACUTE == "EACUTE"                \* U+00E9, the NFC composition of e + U+0301
RUN == "RUN"                      \* a run of RUN_LENGTH consecutive letters "a"
RUN_LENGTH == 50000
\* the ASCII letters: [a-z] and [A-Z] of the regular expressions
LowerSeq ==
  <<"a", "b", "c", "d", "e", "f", "g", "h", "i", "j", "k", "l", "m",
    "n", "o", "p", "q", "r", "s", "t", "u", "v", "w", "x", "y", "z">>
UpperSeq ==
  <<"A", "B", "C", "D", "E", "F", "G", "H", "I", "J", "K", "L", "M",
    "N", "O", "P", "Q", "R", "S", "T", "U", "V", "W", "X", "Y", "Z">>
LowerChars == {LowerSeq[i] : i \in 1..26}
UpperChars == {UpperSeq[i] : i \in 1..26}
DigitChars == {"0", "1"}
LetterChars == LowerChars \cup UpperChars
\* \w of Python's re on str: Unicode letters, digits and the underscore
WordChars == LetterChars \cup DigitChars \cup {"_", EACUTE}
\* str.isspace() / \s : the characters str.strip() and re.split(r"\s+") eat
SpaceChars == {" ", "\t", "\n", "\r"}
InlineWs == {" ", "\t"}
SentencePunct == {".", ",", ";", ":", "!", "?"}

\* str.lower() on one character
LowerOf(c) ==
  IF c \in UpperChars THEN LowerSeq[CHOOSE i \in 1..26 : UpperSeq[i] = c] ELSE c

\* str.upper() on one character
UpperOf(c) ==
  IF c \in LowerChars THEN UpperSeq[CHOOSE i \in 1..26 : LowerSeq[i] = c] ELSE c

\* str.lower() on a string
Lower(s) == [i \in 1..Len(s) |-> LowerOf(s[i])]

\* str.strip(): drop leading and trailing whitespace
RECURSIVE LStrip(_)
LStrip(s) == IF s # <<>> /\ Head(s) \in SpaceChars THEN LStrip(Tail(s)) ELSE s

RECURSIVE RStrip(_)
RStrip(s) ==
  IF s # <<>> /\ s[Len(s)] \in SpaceChars THEN RStrip(SubSeq(s, 1, Len(s) - 1)) ELSE s

Strip(s) == RStrip(LStrip(s))

\* s[i:] of Python, for a 1-based index i
From(s, i) == SubSeq(s, i, Len(s))

\* s.startswith(pre) at position i (1-based)
MatchAt(s, i, pre) ==
  /\ i + Len(pre) - 1 <= Len(s)
  /\ \A k \in 1..Len(pre) : s[i + k - 1] = pre[k]

\* str.find(sub): the first 1-based position of sub in s, 0 when absent
\* (Python returns the 0-based position, -1 when absent)
Find(s, sub) ==
  LET hits == {i \in 1..(Len(s) + 1) : MatchAt(s, i, sub)}
  IN IF hits = {} THEN 0 ELSE CHOOSE i \in hits : \A j \in hits : i <= j

\* str.replace(old, new) for a non-empty old, leftmost non-overlapping
RECURSIVE Replace(_, _, _)
Replace(s, old, new) ==
  IF s = <<>> THEN <<>>
  ELSE IF MatchAt(s, 1, old) THEN new \o Replace(From(s, Len(old) + 1), old, new)
  ELSE <<Head(s)>> \o Replace(Tail(s), old, new)

\* "sep".join(parts)
RECURSIVE Join(_, _)
Join(parts, sep) ==
  IF parts = <<>> THEN <<>>
  ELSE IF Len(parts) = 1 THEN parts[1]
  ELSE parts[1] \o sep \o Join(Tail(parts), sep)

\* [t for t in re.split(r"\s+", s) if t]
RECURSIVE SplitWs(_, _)
SplitWs(s, cur) ==
  IF s = <<>> THEN (IF cur = <<>> THEN <<>> ELSE <<cur>>)
  ELSE IF Head(s) \in SpaceChars
       THEN (IF cur = <<>> THEN <<>> ELSE <<cur>>) \o SplitWs(Tail(s), <<>>)
       ELSE SplitWs(Tail(s), Append(cur, Head(s)))

\* ------------------------------------------------------------------------
\* Text Cleaner: clean_text
\* ------------------------------------------------------------------------
\* unicodedata.normalize("NFC", raw): canonical composition
RECURSIVE NFC(_)
NFC(s) ==
  IF s = <<>> THEN <<>>
  ELSE IF MatchAt(s, 1, <<"e", COMB>>) THEN <<EACUTE>> \o NFC(From(s, 3))
  ELSE <<Head(s)>> \o NFC(Tail(s))

\* t.replace("\u00ad", "").replace("\u200b", "").replace("\u2060", "")
StripInvisible(s) == Replace(Replace(Replace(s, <<SHY>>, <<>>), <<ZWSP>>, <<>>), <<WJ>>, <<>>)

\* re.sub(r"-\n(?=\w)", "", t)
RECURSIVE Dehyphenate(_)
Dehyphenate(s) ==
  IF s = <<>> THEN <<>>
  ELSE IF MatchAt(s, 1, <<"-", "\n">>) /\ Len(s) >= 3 /\ s[3] \in WordChars
       THEN Dehyphenate(From(s, 3))
  ELSE <<Head(s)>> \o Dehyphenate(Tail(s))

\* length of the run of [ \t] characters at the head of s
RECURSIVE InlineRun(_)
InlineRun(s) == IF s # <<>> /\ Head(s) \in InlineWs THEN 1 + InlineRun(Tail(s)) ELSE 0

\* re.sub(r"[ \t]*\n[ \t]*", " ", t)
RECURSIVE FlowLines(_)
FlowLines(s) ==
  IF s = <<>> THEN <<>>
  ELSE LET k == InlineRun(s)
       IN IF k < Len(s) /\ s[k + 1] = "\n"
          THEN LET rest == From(s, k + 2)
               IN <<" ">> \o FlowLines(From(rest, InlineRun(rest) + 1))
          ELSE <<Head(s)>> \o FlowLines(Tail(s))

\* re.sub(r"(?<=[a-z])(?=[A-Z])", " ", t)
RECURSIVE SplitCamel(_)
SplitCamel(s) ==
  IF Len(s) < 2 THEN s
  ELSE IF s[1] \in LowerChars /\ s[2] \in UpperChars
       THEN <<s[1], " ">> \o SplitCamel(Tail(s))
  ELSE <<s[1]>> \o SplitCamel(Tail(s))

\* re.sub(r"([.,;:!?])(?=[A-Za-z])", r"\1 ", t)
RECURSIVE SpaceAfterPunct(_)
SpaceAfterPunct(s) ==
  IF Len(s) < 2 THEN s
  ELSE IF s[1] \in SentencePunct /\ s[2] \in LetterChars
       THEN <<s[1], " ">> \o SpaceAfterPunct(Tail(s))
  ELSE <<s[1]>> \o SpaceAfterPunct(Tail(s))

\* a cleaner that keeps runs of spaces and tabs
CollapseSpaces_Kept(s) == s

\* re.sub(r"[ \t]{2,}", " ", t)
RECURSIVE CollapseSpaces(_)
CollapseSpaces(s) ==
  IF s = <<>> THEN <<>>
  ELSE LET k == InlineRun(s)
       IN IF k >= 2 THEN <<" ">> \o CollapseSpaces(From(s, k + 1))
          ELSE <<Head(s)>> \o CollapseSpaces(Tail(s))

clean_text(raw) ==
  IF raw = <<>> THEN <<>>
  ELSE LET t1 == NFC(raw)
           t2 == Replace(Replace(t1, <<"\r", "\n">>, <<"\n">>), <<"\r">>, <<"\n">>)
           t3 == StripInvisible(t2)
           t4 == Dehyphenate(t3)
           t5 == FlowLines(t4)
           t6 == SplitCamel(t5)
           t7 == SpaceAfterPunct(t6)
           t8 == CollapseSpaces(t7)
       IN Strip(t8)

\* ------------------------------------------------------------------------
\* Query Compiler: _ftsify
\* ------------------------------------------------------------------------
\* re.search(r"\b(OR|AND|NOT)\b", s, flags=re.IGNORECASE)
BoolWords == {<<"o", "r">>, <<"a", "n", "d">>, <<"n", "o", "t">>}

HasBoolOp_CaseSensitive(s) ==
  \E i \in 1..Len(s) : \E w \in {<<"O", "R">>, <<"A", "N", "D">>, <<"N", "O", "T">>} :
    /\ MatchAt(s, i, w)
    /\ (i = 1 \/ s[i - 1] \notin WordChars)
    /\ (i + Len(w) > Len(s) \/ s[i + Len(w)] \notin WordChars)

HasBoolOp(s) ==
  \E i \in 1..Len(s) : \E w \in BoolWords :
    /\ MatchAt(Lower(s), i, w)
    /\ (i = 1 \/ s[i - 1] \notin WordChars)
    /\ (i + Len(w) > Len(s) \/ s[i + Len(w)] \notin WordChars)

\* '"' in s
HasQuote(s) == \E i \in 1..Len(s) : s[i] = "\""

\* len(): the number of characters of a text
RECURSIVE TextLen(_)
TextLen(s) ==
  IF s = <<>> THEN 0
  ELSE (IF Head(s) = RUN THEN RUN_LENGTH ELSE 1) + TextLen(Tail(s))

WildcardLong_AlsoShort(toks) ==
  [i \in 1..Len(toks) |-> IF TextLen(toks[i]) < 2 THEN toks[i] ELSE Append(toks[i], "*")]

\* the loop of _ftsify over toks: WildcardLong
WildcardLong(toks) ==
  [i \in 1..Len(toks) |-> IF TextLen(toks[i]) <= 2 THEN toks[i] ELSE Append(toks[i], "*")]

AndSep == <<" ", "A", "N", "D", " ">>

_ftsify(q_raw) ==
  LET s == Strip(q_raw)
  IN IF s = <<>> THEN s
     ELSE IF HasBoolOp(s) THEN s
     ELSE IF HasQuote(s) THEN s
     ELSE LET parts == WildcardLong(SplitWs(s, <<>>))
          IN IF parts # <<>> THEN Join(parts, AndSep) ELSE s

\* ------------------------------------------------------------------------
\* Files, paths and titles
\* ------------------------------------------------------------------------
\* code point order of the characters that occur in file names
CodeOrder == <<".", "/", "0", "1", "D", "F", "P", "T", "X", "_", "a", "b", "c", "d", "f", "g", "j", "p", "t", "w", "x">>

Code(c) == CHOOSE i \in 1..Len(CodeOrder) : CodeOrder[i] = c

\* a < b for two strings, as Python compares them
RECURSIVE StrLess(_, _)
StrLess(a, b) ==
  IF b = <<>> THEN FALSE
  ELSE IF a = <<>> THEN TRUE
  ELSE IF Head(a) = Head(b) THEN StrLess(Tail(a), Tail(b))
  ELSE Code(Head(a)) < Code(Head(b))

\* sorted(...) of a set of names
RECURSIVE Sorted(_)
Sorted(S) ==
  IF S = {} THEN <<>>
  ELSE LET m == CHOOSE x \in S : \A y \in S \ {x} : StrLess(x, y)
       IN <<m>> \o Sorted(S \ {m})

\* the entries the watched library directory can hold (names relative to LIB_DIR)
FileTxt == <<"a", "_", "b", ".", "T", "X", "T">>
FilePdf == <<"w", ".", "p", "d", "f">>
FileJpg == <<"c", ".", "j", "p", "g">>
Files == {FileTxt, FilePdf, FileJpg}

\* the raw texts a file can hold
RawWard == <<"w", "a", "r", "d">>
RawCamel == <<"a", "B">>
RawBlank == <<" ", "\n">>
RawInvisible == <<ZWSP>>
RawTexts == {<<>>, RawBlank, RawInvisible, RawWard, RawCamel}

\* the raw texts each entry takes in the model: a text file with and without
\* words, a PDF with and without a text layer, an image
RawTextsOf(name) ==
  IF name = FileTxt THEN {RawBlank, RawInvisible, RawWard, RawCamel}
  ELSE IF name = FilePdf THEN {<<>>, RawWard}
  ELSE {RawWard}

\* position of the last "." of a name, 0 when there is none
LastDot(name) ==
  LET dots == {i \in 1..Len(name) : name[i] = "."}
  IN IF dots = {} THEN 0 ELSE CHOOSE i \in dots : \A j \in dots : j <= i

\* Path.suffix
Suffix(name) ==
  LET i == LastDot(name)
  IN IF i > 1 /\ i < Len(name) THEN From(name, i) ELSE <<>>

\* Path.stem
Stem(name) ==
  LET i == LastDot(name)
  IN IF i > 1 /\ i < Len(name) THEN SubSeq(name, 1, i - 1) ELSE name

\* re.sub(r"[_-]+", " ", name)
RECURSIVE DashesToSpace(_)
DashesToSpace(s) ==
  IF s = <<>> THEN <<>>
  ELSE IF Head(s) \in {"_", "-"}
       THEN IF Len(s) >= 2 /\ s[2] \in {"_", "-"} THEN DashesToSpace(Tail(s))
            ELSE <<" ">> \o DashesToSpace(Tail(s))
  ELSE <<Head(s)>> \o DashesToSpace(Tail(s))

\* str.title()
TitleCase(s) ==
  [i \in 1..Len(s) |->
     IF i > 1 /\ s[i - 1] \in LetterChars THEN LowerOf(s[i]) ELSE UpperOf(s[i])]

title_from_path(name) ==
  LET n == Strip(DashesToSpace(Stem(name)))
  IN IF n # <<>> THEN TitleCase(n) ELSE name

LibPrefix == <<"l", "i", "b", "r", "a", "r", "y", "/">>

\* str(path.relative_to(BASE_DIR)) for a file of LIB_DIR = BASE_DIR / "library"
RelToBase(name) == LibPrefix \o name

ExtTxt == <<".", "t", "x", "t">>
ExtMd == <<".", "m", "d">>
ExtPdf == <<".", "p", "d", "f">>

\* the extension filter of index_library
SupportedExts(has_pdf) == IF has_pdf THEN {ExtTxt, ExtMd, ExtPdf} ELSE {ExtTxt, ExtMd}

IsSupported(name, has_pdf) == Lower(Suffix(name)) \in SupportedExts(has_pdf)

\* ------------------------------------------------------------------------
\* Text Extractor
\* ------------------------------------------------------------------------
\* "import pdfminer_high_level" finds no such module: the flag is False
HAS_PDFMINER == FALSE

\* a file of the library: absent, a readable file holding raw, or an
\* unreadable / corrupt file
Absent == [st |-> "absent", raw |-> <<>>]
Unreadable == [st |-> "unreadable", raw |-> <<>>]
FileOf(raw) == [st |-> "file", raw |-> raw]

\* outcome of an extraction: the text, or an exception raised to the caller
Text(t) == [raised |-> FALSE, text |-> t]
Raised == [raised |-> TRUE, text |-> <<>>]

\* read_text_file: both read_text calls ignore decoding errors, so only an
\* I/O error is raised, and then by the second call as well
read_text_file(file) == IF file.st = "file" THEN Text(file.raw) ELSE Raised

\* read_pdf_file: every failure is caught and yields ""
read_pdf_file(file, has_pdf) ==
  IF HAS_PDFMINER /\ file.st = "file" THEN Text(file.raw)
  ELSE IF ~has_pdf THEN Text(<<>>)
  ELSE IF file.st = "file" THEN Text(file.raw)
  ELSE Text(<<>>)

extract_text(name, file, use_cleaner, has_pdf) ==
  LET ext == Lower(Suffix(name))
      raw == IF ext \in {ExtTxt, ExtMd} THEN read_text_file(file)
             ELSE IF ext = ExtPdf THEN read_pdf_file(file, has_pdf)
             ELSE Text(<<>>)
  IN IF raw.raised THEN Raised
     ELSE IF use_cleaner THEN Text(clean_text(raw.text)) ELSE raw

DEFAULT_USE_CLEANER == TRUE

\* ------------------------------------------------------------------------
\* State
\* ------------------------------------------------------------------------
VARIABLES
  fs,             \* the library directory: file name -> file
  has_pdf,        \* HAS_PDF: whether PyPDF2 could be imported
  docs,           \* rows of the documents table
  docs_fts,       \* entries of the full-text index docs_fts
  clock,          \* the wall clock read by datetime.utcnow() / time.time()
  pc,             \* per request handler: where it is in its request
  local,          \* per request handler: the locals of index_library
  REINDEX_STATE,  \* the status flag record of the reindex wrapper
  lastDone,       \* history: the use_cleaner of the last completed sync since
                  \* which the library has not changed ("none" otherwise)
  compiled,       \* a call of the query compiler: its argument and its result
  search,         \* the /api/search request being answered, NoSearch when none
  facets,         \* the /api/facets request being answered, NoFacets when none
  session,        \* the Flask session of the client
  uploads,        \* the uploads directory of app.py: file name -> file
  response,       \* the last response sent outside the reindex and search handlers
  sessions,       \* UPLOADS_DIR/<upload_id>.json: upload id -> session state
  parts,          \* UPLOADS_DIR/<upload_id>.part: upload id -> part file
  upload_resp,    \* the last response of a chunked upload route
  client,         \* the last run of upload_client.py for one file
  _wizard,        \* Engine._wizard: chat session id -> the wizard it is in
  worlds,         \* data/worlds.json
  homes,          \* data/homes.json
  tally,          \* per chat session, what happened since its wizard was started
  cleaned,        \* a call of clean_text: its argument and what it returned
  safe,           \* a call of _safe_relpath: its argument and what it returned
  facet_meta,     \* the committed doc_count column of facet_meta: facet -> count
  _profiles,      \* Engine._profiles: user -> the id of the selected world (0: none)
  reply           \* the last answer of the chat engine and whom it went to

vars == <<fs, has_pdf, docs, docs_fts, clock, pc, local, REINDEX_STATE, lastDone, compiled,
          search, facets, session, uploads, response, sessions, parts, upload_resp, client,
          _wizard, worlds, homes, tally, cleaned, safe, facet_meta, _profiles, reply>>

\* the state of the library, the index, the reindex handlers and the search
indexVars == <<fs, has_pdf, docs, docs_fts, clock, pc, local, REINDEX_STATE, lastDone,
               compiled, search, cleaned, safe, facet_meta, _profiles, reply>>

\* the state the reindex and search handlers never touch
\* the session, the uploads directory and the last response
wallVars == <<session, uploads, response>>

\* the chunked uploads and the upload client
chunkVars == <<sessions, parts, upload_resp, client>>

\* the World Builder chat engine
wizardVars == <<_wizard, worlds, homes, tally>>

restVars == <<facets, wallVars, chunkVars, wizardVars, cleaned, safe, facet_meta, _profiles, reply>>

Procs == {1, 2}

None == -1

\* a call of clean_text before and after it returns
NotSafe(relpath) == [relpath |-> relpath, out |-> <<>>, done |-> FALSE]
Safe(relpath, out) == [relpath |-> relpath, out |-> out, done |-> TRUE]

NotCleaned(raw) == [raw |-> raw, text |-> <<>>, done |-> FALSE]
Cleaned(raw, text) == [raw |-> raw, text |-> text, done |-> TRUE]

\* a call of _ftsify before and after it returns
NotCompiled(q) == [q_raw |-> q, q_fts |-> <<>>, done |-> FALSE]
Compiled(q, r) == [q_raw |-> q, q_fts |-> r, done |-> TRUE]

\* no search request is being answered
NoSearch ==
  [q_raw |-> <<>>, q_fts |-> <<>>, include_like |-> FALSE, attempts |-> <<>>,
   raised |-> FALSE, rows |-> {}, scanned |-> FALSE, out |-> {}, done |-> FALSE]

\* no response yet.  anon: the session was not logged in; body: the data the
\* response carries; changed: the request changed state on the server
NoResponse == [route |-> "", anon |-> FALSE, status |-> 0, body |-> <<>>, changed |-> FALSE]

\* the upload ids and the state of UPLOADS_DIR without any session
UploadIds == {"u1", "u2"}
NoSession == [exists |-> FALSE, filename |-> <<>>, relpath |-> <<>>, total_size |-> 0,
              chunk_size |-> 0, received |-> <<>>]
NoSessions == [id \in UploadIds |-> NoSession]
NoParts == [id \in UploadIds |-> Absent]

\* no chunked upload request answered yet, no client run yet
NoUploadResp == [route |-> "", id |-> "", status |-> 0, error |-> "", mismatch |-> FALSE,
                 kept |-> TRUE]
NoClient == [file |-> <<>>, calls |-> <<>>, outcome |-> "", had |-> {}]

\* the chat sessions; a session outside a wizard, and before its first wizard
Sids == {"s1", "s2"}
NoWizard == [active |-> FALSE, mode |-> "", difficulty |-> "", step |-> 0, answers |-> {}]
NoTally == [mode |-> "", difficulty |-> "", valid |-> 0, backs |-> 0, created |-> 0,
            cancelled |-> FALSE]

\* the users of the chat; no answer of the chat engine yet.  worlds and homes:
\* the ids of the worlds and homes whose data the answer carries; state: the
\* state payload sent after it
ChatUsers == {"ann", "bob", "eve"}
NoState == [sent |-> FALSE, worlds |-> {}, homes |-> {}]
NoReply == [to |-> "", body |-> "", worlds |-> {}, homes |-> {},
            state_changed |-> FALSE, state |-> NoState]

\* no facets request is being answered
NoFacets == [done |-> FALSE, counts |-> <<>>]

\* the rest of the portal before any request
InitRest ==
  /\ facets = NoFacets
  /\ session = [logged_in |-> FALSE]
  /\ uploads = [f \in Files |-> Absent]
  /\ response = NoResponse
  /\ upload_resp = NoUploadResp
  /\ client = NoClient
  /\ _wizard = [sid \in Sids |-> NoWizard]
  /\ worlds = <<>>
  /\ homes = <<>>
  /\ tally = [sid \in Sids |-> NoTally]
  /\ facet_meta = [f \in {"Spells", "Remedies", "Potions", "Cures", "Protection"} |-> 0]
  /\ _profiles = [u \in ChatUsers |-> 0]
  /\ reply = NoReply

IdleLocal ==
  [route |-> "none", uc |-> FALSE, existing |-> {}, had |-> {}, listing |-> <<>>,
   i |-> 0, inserted |-> 0, updated |-> 0, removed |-> 0, file_count |-> 0,
   total_docs |-> 0, status |-> "", error |-> "", prevSame |-> FALSE, file |-> <<>>]

\* the state after init_db: an empty documents table over the given library,
\* and what UPLOADS_DIR holds when the module is loaded
InitStore(files, S, P) ==
  /\ fs = files
  /\ has_pdf \in BOOLEAN
  /\ docs = {}
  /\ docs_fts = {}
  /\ clock = 0
  /\ pc = [p \in Procs |-> "idle"]
  /\ local = [p \in Procs |-> IdleLocal]
  /\ REINDEX_STATE = [running |-> FALSE, message |-> "Ready.", started_at |-> None,
                      finished_at |-> None, last_error |-> "None"]
  /\ lastDone = "none"
  /\ compiled = NotCompiled(<<>>)
  /\ search = NoSearch
  /\ cleaned = NotCleaned(<<>>)
  /\ safe = NotSafe(<<>>)
  /\ InitRest
  /\ sessions = S
  /\ parts = P

InitWith(files) == InitStore(files, NoSessions, NoParts)

\* a fresh database over an empty library
Init == InitWith([f \in Files |-> Absent])

\* a fresh database over a library that holds one image
InitImage == InitWith([f \in Files |-> IF f = FileJpg THEN FileOf(RawWard) ELSE Absent])

AllIdle == \A p \in Procs : pc[p] = "idle"

\* ------------------------------------------------------------------------
\* Index Store: the documents table, its UNIQUE constraint and its triggers
\* ------------------------------------------------------------------------
FtsEntry(row) == [rowid |-> row.id, title |-> row.title, content |-> row.content]

documents_ai_NotFired(fts, new) == fts

\* trigger documents_ai
documents_ai(fts, new) == fts \cup {FtsEntry(new)}

\* trigger documents_ad ('delete' command with the old values)
documents_ad(fts, old) == fts \ {FtsEntry(old)}

documents_au_DeleteOnly(fts, old, new) == documents_ad(fts, old)

\* trigger documents_au
documents_au(fts, old, new) == documents_ai(documents_ad(fts, old), new)

UniqueViolation_Unchecked(D, path) == FALSE

\* path TEXT NOT NULL UNIQUE: an INSERT of an existing path is rejected
UniqueViolation(D, path) == \E r \in D : r.path = path

\* id INTEGER PRIMARY KEY: the rowid SQLite assigns to a new row
NextRowid(D) ==
  IF D = {} THEN 1
  ELSE (CHOOSE r \in D : \A q \in D : q.id <= r.id).id + 1

\* INSERT INTO documents(title, path, content, created_at, updated_at)
DbInsert(D, F, title, path, content, now) ==
  LET new == [id |-> NextRowid(D), title |-> title, path |-> path, content |-> content,
              created_at |-> now, updated_at |-> now]
  IN [docs |-> D \cup {new}, fts |-> documents_ai(F, new)]

\* an update that stamps the record as new
UpdatedRow_Recreated(r, title, content, now) ==
  [r EXCEPT !.title = title, !.content = content, !.updated_at = now, !.created_at = now]

\* the row an UPDATE of title, content and updated_at leaves
UpdatedRow(r, title, content, now) ==
  [r EXCEPT !.title = title, !.content = content, !.updated_at = now]

RECURSIVE FireUpdate(_, _, _, _, _)
FireUpdate(F, rows, title, content, now) ==
  IF rows = {} THEN F
  ELSE LET r == CHOOSE x \in rows : TRUE
       IN FireUpdate(documents_au(F, r, UpdatedRow(r, title, content, now)),
                     rows \ {r}, title, content, now)

\* UPDATE documents SET title=?, content=?, updated_at=? WHERE path=?
DbUpdateByPath(D, F, title, path, content, now) ==
  LET hit == {r \in D : r.path = path}
  IN [docs |-> (D \ hit) \cup {UpdatedRow(r, title, content, now) : r \in hit},
      fts |-> FireUpdate(F, hit, title, content, now)]

RECURSIVE FireDelete(_, _)
FireDelete(F, rows) ==
  IF rows = {} THEN F
  ELSE LET r == CHOOSE x \in rows : TRUE
       IN FireDelete(documents_ad(F, r), rows \ {r})

\* DELETE FROM documents WHERE id=?
DbDeleteById(D, F, id) ==
  LET hit == {r \in D : r.id = id}
  IN [docs |-> D \ hit, fts |-> FireDelete(F, hit)]

\* ------------------------------------------------------------------------
\* Reindexer: index_library
\* ------------------------------------------------------------------------
\* existing = {row["path"]: row["id"] for row in SELECT id, path FROM documents}
ExistingOf(D) == {[path |-> r.path, id |-> r.id] : r \in D}

\* sorted(LIB_DIR.rglob("*"))
Listing(files) == Sorted({f \in Files : files[f].st # "absent"})

IsBlank_EmptyOnly(text) == text = <<>>

\* not text.strip()
IsBlank(text) == Strip(text) = <<>>

NeedsUpdate_Always(D, rel, text) == \E r \in D : r.path = rel

\* row = SELECT content WHERE path = rel;  row and row["content"] != text
NeedsUpdate(D, rel, text) == \E r \in D : r.path = rel /\ r.content # text

PopExisting_Keep(existing, rel) == existing

\* existing.pop(rel, None)
PopExisting(existing, rel) == {e \in existing : e.path # rel}

\* the start of index_library: init_db, the snapshot of the stored paths and
\* the sorted listing of the library
BeginSync(p, route, uc, files) ==
  LET ls == Listing(files)
  IN /\ local' = [local EXCEPT ![p] =
                    [IdleLocal EXCEPT !.route = route, !.uc = uc,
                                      !.existing = ExistingOf(docs),
                                      !.had = {r.path : r \in docs},
                                      !.listing = ls, !.i = 1,
                                      !.prevSame = (files = fs /\ lastDone = (IF uc THEN "cleaner" ELSE "raw"))]]
     /\ pc' = [pc EXCEPT ![p] = IF ls = <<>> THEN "stale" ELSE "scan"]
     /\ lastDone' = "none"

\* POST /api/reindex through api_reindex_wrapper, up to the first file
ApiReindex(p, use_cleaner) ==
  /\ pc[p] = "idle"
  /\ REINDEX_STATE' = [running |-> TRUE, started_at |-> clock, finished_at |-> None,
                       last_error |-> "None", message |-> "Reindex started..."]
  /\ BeginSync(p, "api", use_cleaner, fs)
  /\ UNCHANGED <<fs, has_pdf, docs, docs_fts, clock, compiled, search, restVars>>

\* the extensions the /upload route accepts
UploadAllowed == {ExtPdf, ExtTxt, ExtMd}

\* POST /upload: save the file under a name not yet taken, then reindex
Upload(p, name, raw) ==
  /\ pc[p] = "idle"
  /\ Lower(Suffix(name)) \in UploadAllowed
  /\ fs[name].st = "absent"
  /\ fs' = [fs EXCEPT ![name] = FileOf(raw)]
  /\ BeginSync(p, "upload", DEFAULT_USE_CLEANER, fs')
  /\ UNCHANGED <<has_pdf, docs, docs_fts, clock, REINDEX_STATE, compiled, search, restVars>>

\* one iteration of the loop over the listing
SyncFile(p) ==
  /\ pc[p] = "scan"
  /\ LET l == local[p]
         name == l.listing[l.i]
         after == IF l.i = Len(l.listing) THEN "stale" ELSE "scan"
         next == [l EXCEPT !.i = l.i + 1]
         rel == RelToBase(name)
     IN IF fs[name].st = "absent" \/ ~IsSupported(name, has_pdf)
        THEN \* continue
             /\ local' = [local EXCEPT ![p] = next]
             /\ pc' = [pc EXCEPT ![p] = after]
             /\ UNCHANGED <<docs, docs_fts, restVars>>
        ELSE LET ex == extract_text(name, fs[name], l.uc, has_pdf)
                 counted == [next EXCEPT !.file_count = l.file_count + 1]
             IN IF ex.raised
                THEN \* the exception leaves index_library
                     /\ local' = [local EXCEPT ![p] = [counted EXCEPT !.error = "OSError"]]
                     /\ pc' = [pc EXCEPT ![p] = "exc"]
                     /\ UNCHANGED <<docs, docs_fts, restVars>>
                ELSE IF IsBlank(ex.text)
                THEN \* continue
                     /\ local' = [local EXCEPT ![p] = counted]
                     /\ pc' = [pc EXCEPT ![p] = after]
                     /\ UNCHANGED <<docs, docs_fts, restVars>>
                ELSE IF \E e \in l.existing : e.path = rel
                THEN LET db == IF NeedsUpdate(docs, rel, ex.text)
                               THEN DbUpdateByPath(docs, docs_fts, title_from_path(name),
                                                   rel, ex.text, clock)
                               ELSE [docs |-> docs, fts |-> docs_fts]
                     IN /\ docs' = db.docs
                        /\ docs_fts' = db.fts
                        /\ local' = [local EXCEPT ![p] =
                              [counted EXCEPT
                                 !.updated = IF NeedsUpdate(docs, rel, ex.text)
                                             THEN l.updated + 1 ELSE l.updated,
                                 !.existing = PopExisting(l.existing, rel)]]
                        /\ pc' = [pc EXCEPT ![p] = after]
                ELSE IF UniqueViolation(docs, rel)
                THEN \* sqlite3.IntegrityError leaves index_library
                     /\ local' = [local EXCEPT ![p] = [counted EXCEPT !.error = "IntegrityError"]]
                     /\ pc' = [pc EXCEPT ![p] = "exc"]
                     /\ UNCHANGED <<docs, docs_fts, restVars>>
                ELSE /\ NextRowid(docs) <= MaxId
                     /\ LET db == DbInsert(docs, docs_fts, title_from_path(name), rel,
                                           ex.text, clock)
                        IN /\ docs' = db.docs
                           /\ docs_fts' = db.fts
                     /\ local' = [local EXCEPT ![p] =
                                    [counted EXCEPT !.inserted = l.inserted + 1]]
                     /\ pc' = [pc EXCEPT ![p] = after]
  /\ UNCHANGED <<fs, has_pdf, clock, REINDEX_STATE, lastDone, compiled, search, restVars>>

\* a loop over the stale records that does not count
SyncDeleteStale_Uncounted(p) ==
  /\ pc[p] = "stale"
  /\ \E e \in local[p].existing :
       LET db == DbDeleteById(docs, docs_fts, e.id)
       IN /\ docs' = db.docs
          /\ docs_fts' = db.fts
          /\ local' = [local EXCEPT ![p].existing = @ \ {e}]
  /\ UNCHANGED <<fs, has_pdf, clock, pc, REINDEX_STATE, lastDone, compiled, search, restVars>>

\* one iteration of the loop over the stale records
SyncDeleteStale(p) ==
  /\ pc[p] = "stale"
  /\ \E e \in local[p].existing :
       LET db == DbDeleteById(docs, docs_fts, e.id)
       IN /\ docs' = db.docs
          /\ docs_fts' = db.fts
          /\ local' = [local EXCEPT ![p].existing = @ \ {e}, ![p].removed = @ + 1]
  /\ UNCHANGED <<fs, has_pdf, clock, pc, REINDEX_STATE, lastDone, compiled, search, restVars>>

index_single_pdf_Inserting(name, file, D, F) ==
  IF file.st = "file" /\ Lower(Suffix(name)) = ExtPdf /\ ~\E d \in D : d.path = name
  THEN LET w == DbInsert(D, F, Stem(name), name, <<>>, 0)
       IN [status |-> "indexed", reason |-> "", docs |-> w.docs, fts |-> w.fts]
  ELSE [status |-> "skipped", reason |-> "unchanged", docs |-> D, fts |-> F]

\* index_single_pdf: the status it returns and the store it leaves.  hashlib
\* is not imported, so the md5 call raises NameError before the connection is
\* opened; the except clause turns it into an error status.
index_single_pdf(name, file, D, F) ==
  IF file.st = "absent"
  THEN [status |-> "error", reason |-> "file_not_found", docs |-> D, fts |-> F]
  ELSE IF Lower(Suffix(name)) # ExtPdf
  THEN [status |-> "skipped", reason |-> "not_pdf", docs |-> D, fts |-> F]
  ELSE IF file.st = "unreadable"
  THEN [status |-> "error", reason |-> "OSError", docs |-> D, fts |-> F]
  ELSE [status |-> "error", reason |-> "NameError", docs |-> D, fts |-> F]

\* a call of the single-document fast path on a file of the library
IndexSinglePdf(p, name) ==
  /\ pc[p] = "idle"
  /\ LET r == index_single_pdf(name, fs[name], docs, docs_fts)
     IN /\ docs' = r.docs
        /\ docs_fts' = r.fts
        /\ local' = [local EXCEPT ![p] =
                       [IdleLocal EXCEPT !.route = "fast", !.status = r.status,
                                         !.error = r.reason, !.file = name]]
  /\ pc' = [pc EXCEPT ![p] = "fastret"]
  /\ UNCHANGED <<fs, has_pdf, clock, REINDEX_STATE, lastDone, compiled, search, restVars>>

\* a wrapper whose except clause records nothing
Return_ErrorDropped(p) ==
  /\ pc[p] \in {"ret", "exc", "fastret"}
  /\ REINDEX_STATE' =
       IF local[p].route = "api"
       THEN [REINDEX_STATE EXCEPT
               !.message = IF pc[p] = "ret" THEN "Reindex finished." ELSE "Reindex failed.",
               !.running = FALSE,
               !.finished_at = clock]
       ELSE REINDEX_STATE
  /\ pc' = [pc EXCEPT ![p] = "idle"]
  /\ local' = [local EXCEPT ![p] = IdleLocal]
  /\ UNCHANGED <<fs, has_pdf, docs, docs_fts, clock, lastDone, compiled, search, restVars>>

\* the handler returns: the rest of api_reindex_wrapper, or of upload
Return(p) ==
  /\ pc[p] \in {"ret", "exc", "fastret"}
  /\ REINDEX_STATE' =
       IF local[p].route = "api"
       THEN [REINDEX_STATE EXCEPT
               !.message = IF pc[p] = "ret" THEN "Reindex finished." ELSE "Reindex failed.",
               !.last_error = IF pc[p] = "ret" THEN @ ELSE local[p].error,
               !.running = FALSE,
               !.finished_at = clock]
       ELSE REINDEX_STATE
  /\ pc' = [pc EXCEPT ![p] = "idle"]
  /\ local' = [local EXCEPT ![p] = IdleLocal]
  /\ UNCHANGED <<fs, has_pdf, docs, docs_fts, clock, lastDone, compiled, search, restVars>>

\* ------------------------------------------------------------------------
\* Environment: the library changes between requests, time passes
\* ------------------------------------------------------------------------
WriteFile(name, raw) ==
  /\ fs[name] # FileOf(raw)
  /\ fs' = [fs EXCEPT ![name] = FileOf(raw)]
  /\ lastDone' = "none"
  /\ UNCHANGED <<has_pdf, docs, docs_fts, clock, pc, local, REINDEX_STATE, compiled, search, restVars>>

RemoveFile(name) ==
  /\ fs[name].st # "absent"
  /\ fs' = [fs EXCEPT ![name] = Absent]
  /\ lastDone' = "none"
  /\ UNCHANGED <<has_pdf, docs, docs_fts, clock, pc, local, REINDEX_STATE, compiled, search, restVars>>

DamageFile(name) ==
  /\ fs[name].st = "file"
  /\ fs' = [fs EXCEPT ![name] = Unreadable]
  /\ lastDone' = "none"
  /\ UNCHANGED <<has_pdf, docs, docs_fts, clock, pc, local, REINDEX_STATE, compiled, search, restVars>>

Tick ==
  /\ clock < MaxClock
  /\ clock' = clock + 1
  /\ UNCHANGED <<fs, has_pdf, docs, docs_fts, pc, local, REINDEX_STATE, lastDone, compiled, search, restVars>>

\* ------------------------------------------------------------------------
\* The full-text engine behind docs_fts: SQLite FTS5 with its default
\* unicode61 tokenizer, for queries without parentheses, column filters,
\* NEAR, "+" and "^"
\* ------------------------------------------------------------------------
FtsSpace == {" ", "\t", "\n", "\r"}

\* the characters of an FTS5 bareword: ASCII letters and digits, "_", and
\* every character outside ASCII
BarewordChars == LetterChars \cup DigitChars \cup {"_", EACUTE, COMB, SHY, ZWSP, WJ, RUN}

\* the characters unicode61 keeps in a token
TokenChars == LetterChars \cup DigitChars \cup {EACUTE, RUN}

\* unicode61 folds case and removes diacritics
FoldOf(c) == IF c = EACUTE THEN "e" ELSE LowerOf(c)

\* the tokens unicode61 makes of a text
RECURSIVE Unicode61(_, _)
Unicode61(s, cur) ==
  IF s = <<>> THEN (IF cur = <<>> THEN <<>> ELSE <<cur>>)
  ELSE IF Head(s) \in TokenChars
       THEN Unicode61(Tail(s), Append(cur, FoldOf(Head(s))))
       ELSE (IF cur = <<>> THEN <<>> ELSE <<cur>>) \o Unicode61(Tail(s), <<>>)

LexError == [err |-> TRUE, toks |-> <<>>]
LexOk(toks) == [err |-> FALSE, toks |-> toks]
Lexeme(t, v) == [t |-> t, v |-> v]

\* the rest of a quoted string: its value and what follows the closing quote
RECURSIVE ReadString(_, _)
ReadString(s, acc) ==
  IF s = <<>> THEN [err |-> TRUE, v |-> <<>>, rest |-> <<>>]
  ELSE IF Head(s) = "\""
       THEN IF Len(s) >= 2 /\ s[2] = "\""
            THEN ReadString(From(s, 3), Append(acc, "\""))
            ELSE [err |-> FALSE, v |-> acc, rest |-> Tail(s)]
  ELSE ReadString(Tail(s), Append(acc, Head(s)))

\* length of the run of bareword characters at the head of s
RECURSIVE BarewordRun(_)
BarewordRun(s) ==
  IF s # <<>> /\ Head(s) \in BarewordChars THEN 1 + BarewordRun(Tail(s)) ELSE 0

\* the lexemes of an FTS5 query, or a syntax error
RECURSIVE FtsLex(_)
FtsLex(s) ==
  IF s = <<>> THEN LexOk(<<>>)
  ELSE IF Head(s) \in FtsSpace THEN FtsLex(Tail(s))
  ELSE IF Head(s) = "\""
       THEN LET r == ReadString(Tail(s), <<>>)
                more == FtsLex(r.rest)
            IN IF r.err \/ more.err THEN LexError
               ELSE LexOk(<<Lexeme("STRING", r.v)>> \o more.toks)
  ELSE IF Head(s) \in BarewordChars
       THEN LET n == BarewordRun(s)
                w == SubSeq(s, 1, n)
                more == FtsLex(From(s, n + 1))
                lx == IF w = <<"A", "N", "D">> THEN Lexeme("AND", <<>>)
                      ELSE IF w = <<"O", "R">> THEN Lexeme("OR", <<>>)
                      ELSE IF w = <<"N", "O", "T">> THEN Lexeme("NOT", <<>>)
                      ELSE Lexeme("STRING", w)
            IN IF more.err THEN LexError ELSE LexOk(<<lx>> \o more.toks)
  ELSE IF Head(s) = "*"
       THEN LET more == FtsLex(Tail(s))
            IN IF more.err THEN LexError ELSE LexOk(<<Lexeme("STAR", <<>>)>> \o more.toks)
  ELSE LexError

\* the segments of a lexeme list between the occurrences of an operator
RECURSIVE SplitOn(_, _, _)
SplitOn(toks, op, cur) ==
  IF toks = <<>> THEN <<cur>>
  ELSE IF Head(toks).t = op THEN <<cur>> \o SplitOn(Tail(toks), op, <<>>)
  ELSE SplitOn(Tail(toks), op, Append(cur, Head(toks)))

\* a list of phrases (implicit AND): STRING lexemes, each with an optional "*"
IsPhraseList(seg) ==
  /\ seg # <<>>
  /\ \A i \in 1..Len(seg) :
       \/ seg[i].t = "STRING"
       \/ seg[i].t = "STAR" /\ i > 1 /\ seg[i - 1].t = "STRING"

\* OR binds loosest, then AND, then NOT, then the implicit AND
FtsWellFormed(toks) ==
  \A o \in 1..Len(SplitOn(toks, "OR", <<>>)) :
    LET os == SplitOn(toks, "OR", <<>>)[o]
    IN \A a \in 1..Len(SplitOn(os, "AND", <<>>)) :
         LET as == SplitOn(os, "AND", <<>>)[a]
         IN \A n \in 1..Len(SplitOn(as, "NOT", <<>>)) :
              IsPhraseList(SplitOn(as, "NOT", <<>>)[n])

\* a phrase occurs in the tokens of a column: its tokens in a row, the last
\* one as a prefix when the phrase is starred
PhraseIn(ptoks, starred, col) ==
  /\ ptoks # <<>>
  /\ \E at \in 1..Len(col) :
       /\ at + Len(ptoks) - 1 <= Len(col)
       /\ \A k \in 1..Len(ptoks) :
            IF k = Len(ptoks) /\ starred
            THEN MatchAt(col[at + k - 1], 1, ptoks[k])
            ELSE col[at + k - 1] = ptoks[k]

\* the implicit AND of a phrase list; a phrase without tokens is dropped from
\* the list, and a list of such phrases only matches nothing
PhraseListMatches(seg, e) ==
  LET real == {i \in 1..Len(seg) : seg[i].t = "STRING" /\ Unicode61(seg[i].v, <<>>) # <<>>}
  IN /\ real # {}
     /\ \A i \in real :
          LET starred == i < Len(seg) /\ seg[i + 1].t = "STAR"
              ptoks == Unicode61(seg[i].v, <<>>)
          IN \/ PhraseIn(ptoks, starred, Unicode61(e.title, <<>>))
             \/ PhraseIn(ptoks, starred, Unicode61(e.content, <<>>))

NotChainMatches(as, e) ==
  LET ns == SplitOn(as, "NOT", <<>>)
  IN /\ PhraseListMatches(ns[1], e)
     /\ \A n \in 2..Len(ns) : ~PhraseListMatches(ns[n], e)

\* docs_fts MATCH ? for one entry of the index
FtsMatches(toks, e) ==
  \E o \in 1..Len(SplitOn(toks, "OR", <<>>)) :
    LET os == SplitOn(toks, "OR", <<>>)[o]
    IN \A a \in 1..Len(SplitOn(os, "AND", <<>>)) :
         NotChainMatches(SplitOn(os, "AND", <<>>)[a], e)

\* whether the engine rejects the query (sqlite3.OperationalError)
FtsRejects(q) ==
  LET lx == FtsLex(q)
  IN lx.err \/ lx.toks = <<>> \/ ~FtsWellFormed(lx.toks)

\* the entries of the index a query matches
FtsHits(q, F) == {e \in F : FtsMatches(FtsLex(q).toks, e)}

\* lower(content) LIKE lower(pattern), with the wildcards % and _
RECURSIVE LikeMatch(_, _)
LikeMatch(pat, text) ==
  IF pat = <<>> THEN text = <<>>
  ELSE IF Head(pat) = "%"
       THEN \E k \in 1..(Len(text) + 1) : LikeMatch(Tail(pat), From(text, k))
  ELSE IF Head(pat) = "_"
       THEN text # <<>> /\ LikeMatch(Tail(pat), Tail(text))
  ELSE text # <<>> /\ LowerOf(Head(pat)) = LowerOf(Head(text)) /\ LikeMatch(Tail(pat), Tail(text))

\* ------------------------------------------------------------------------
\* Search Executor: api_search
\* ------------------------------------------------------------------------
DEFAULT_LIKE_FALLBACK == TRUE
RESULT_LIMIT == 100
SNIPPET_CONTEXT == 90
HELLIP == "HELLIP"                \* U+2026 horizontal ellipsis
MarkOpen == <<"<", "m", "a", "r", "k", ">">>
MarkClose == <<"<", "/", "m", "a", "r", "k", ">">>

\* LIMIT 100
Limit(rows) ==
  IF Cardinality(rows) <= RESULT_LIMIT THEN rows
  ELSE CHOOSE S \in SUBSET rows : Cardinality(S) = RESULT_LIMIT

\* the SELECT over docs_fts JOIN documents ... WHERE docs_fts MATCH ?.  The
\* row carries the content its snippet() is rendered from; rank is a bm25
\* score (negative, here -1) or the constant 0 of the retry
FtsSelect(q_fts, ranked, D, F) ==
  IF FtsRejects(q_fts) THEN [error |-> TRUE, rows |-> {}]
  ELSE [error |-> FALSE,
        rows |-> Limit({[id |-> d.id, title |-> d.title, snippet |-> e.content,
                         rank |-> IF ranked THEN -1 ELSE 0, path |-> d.path] :
                        <<d, e>> \in {x \in D \X FtsHits(q_fts, F) : x[1].id = x[2].rowid}})]

\* .replace("&", "&amp;").replace("<", "&lt;").replace(">", "&gt;")
HtmlEscape(s) ==
  Replace(Replace(Replace(s, <<"&">>, <<"&", "a", "m", "p", ";">>),
                  <<"<">>, <<"&", "l", "t", ";">>),
          <<">">>, <<"&", "g", "t", ";">>)

Max(a, b) == IF a >= b THEN a ELSE b
Min(a, b) == IF a <= b THEN a ELSE b

\* the snippet the fallback builds around the match at 1-based position pos
LikeSnippet(content, q_raw, pos) ==
  LET start == Max(0, (pos - 1) - SNIPPET_CONTEXT)
      end == Min(Len(content), (pos - 1) + Len(q_raw) + SNIPPET_CONTEXT)
      esc == HtmlEscape(SubSeq(content, start + 1, end))
      p == Find(Lower(esc), Lower(q_raw))
      marked == IF p # 0
                THEN SubSeq(esc, 1, p - 1) \o MarkOpen \o SubSeq(esc, p, p + Len(q_raw) - 1)
                     \o MarkClose \o From(esc, p + Len(q_raw))
                ELSE esc
  IN <<HELLIP>> \o marked \o <<HELLIP>>

\* the substring fallback: the LIKE scan and the loop over its rows
LikeScan(q_raw, D) ==
  LET like_rows == Limit({d \in D :
                     LikeMatch(Lower(<<"%">> \o q_raw \o <<"%">>), Lower(d.content))})
  IN {[id |-> d.id, title |-> d.title, path |-> d.path,
       snippet |-> LikeSnippet(d.content, q_raw, Find(Lower(d.content), Lower(q_raw))),
       rank |-> 0] :
      d \in {x \in like_rows : Find(Lower(x.content), Lower(q_raw)) # 0}}

\* SQLite refuses a LIKE pattern longer than SQLITE_MAX_LIKE_PATTERN_LENGTH
\* bytes with the OperationalError "LIKE or GLOB pattern too complex"
LIKE_PATTERN_LIMIT == 50000
LikeRaises(q_raw) == TextLen(<<"%">> \o q_raw \o <<"%">>) > LIKE_PATTERN_LIMIT

ReturnsPrimary_IgnoresFlag(rows, include_like) == rows # {}

\* if rows or not include_like: return the rows of the index query
ReturnsPrimary(rows, include_like) == rows # {} \/ ~include_like

\* the inner try/except around the retry: a second OperationalError is
\* caught and leaves rows = []
RetryOutcome(second) ==
  [raised |-> FALSE, rows |-> IF second.error THEN {} ELSE second.rows]

\* the whole handler: what it computed and what it answers.  attempts lists
\* the index queries it executed, TRUE for the bm25-ranked statement and
\* FALSE for the one with "0 AS rank"; raised tells an exception left it
api_search(q_arg, like_arg, D, F) ==
  LET q_raw == Strip(q_arg)
      like_toggle == IF like_arg = "absent"
                     THEN (IF DEFAULT_LIKE_FALLBACK THEN "1" ELSE "0") ELSE like_arg
      include_like == like_toggle = "1"
      q_fts == _ftsify(q_raw)
      first == FtsSelect(q_fts, TRUE, D, F)
      second == FtsSelect(q_fts, FALSE, D, F)
      tried == IF ~first.error THEN [raised |-> FALSE, rows |-> first.rows]
               ELSE RetryOutcome(second)
      rows == tried.rows
      attempts == IF first.error THEN <<TRUE, FALSE>> ELSE <<TRUE>>
      base == [NoSearch EXCEPT !.q_raw = q_raw, !.include_like = include_like, !.done = TRUE]
  IN IF q_raw = <<>> THEN base
     ELSE IF tried.raised
     THEN [base EXCEPT !.q_fts = q_fts, !.attempts = attempts, !.raised = TRUE]
     ELSE IF ReturnsPrimary(rows, include_like)
     THEN [base EXCEPT !.q_fts = q_fts, !.attempts = attempts,
                       !.rows = rows, !.out = rows]
     ELSE IF LikeRaises(q_raw)
     THEN [base EXCEPT !.q_fts = q_fts, !.attempts = attempts,
                       !.rows = rows, !.scanned = TRUE, !.raised = TRUE]
     ELSE [base EXCEPT !.q_fts = q_fts, !.attempts = attempts,
                       !.rows = rows, !.scanned = TRUE, !.out = LikeScan(q_raw, D)]

\* GET /api/search?q=...&like=...
Search(q_arg, like_arg) ==
  /\ ~search.done
  /\ search' = api_search(q_arg, like_arg, docs, docs_fts)
  /\ UNCHANGED <<fs, has_pdf, docs, docs_fts, clock, pc, local, REINDEX_STATE, lastDone,
                 compiled, restVars>>

\* the answer has been sent
SearchReturn ==
  /\ search.done
  /\ search' = NoSearch
  /\ UNCHANGED <<fs, has_pdf, docs, docs_fts, clock, pc, local, REINDEX_STATE, lastDone,
                 compiled, restVars>>

\* ------------------------------------------------------------------------
\* Facet Counter: _facet_counts and api_facets
\* ------------------------------------------------------------------------
\* FACET_DEFS: facet name -> keywords, in the order of the source
FACET_DEFS ==
     "Spells" :>
     <<<<"s", "p", "e", "l", "l">>,
       <<"i", "n", "c", "a", "n", "t", "a", "t", "i", "o", "n">>,
       <<"i", "n", "v", "o", "c", "a", "t", "i", "o", "n">>,
       <<"c", "o", "n", "j", "u", "r", "e">>>>
  @@ "Remedies" :>
     <<<<"r", "e", "m", "e", "d", "y">>,
       <<"s", "a", "l", "v", "e">>,
       <<"o", "i", "n", "t", "m", "e", "n", "t">>,
       <<"t", "r", "e", "a", "t", "m", "e", "n", "t">>,
       <<"h", "e", "r", "b">>>>
  @@ "Potions" :>
     <<<<"p", "o", "t", "i", "o", "n">>,
       <<"e", "l", "i", "x", "i", "r">>,
       <<"t", "i", "n", "c", "t", "u", "r", "e">>,
       <<"b", "r", "e", "w">>>>
  @@ "Cures" :>
     <<<<"c", "u", "r", "e">>,
       <<"h", "e", "a", "l", "i", "n", "g">>,
       <<"h", "e", "a", "l">>,
       <<"a", "n", "t", "i", "d", "o", "t", "e">>>>
  @@ "Protection" :>
     <<<<"p", "r", "o", "t", "e", "c", "t", "i", "o", "n">>,
       <<"w", "a", "r", "d">>,
       <<"s", "h", "i", "e", "l", "d">>,
       <<"b", "a", "n", "i", "s", "h">>,
       <<"c", "i", "r", "c", "l", "e">>,
       <<"s", "i", "g", "i", "l">>>>

FacetNames == DOMAIN FACET_DEFS

OrSep == <<" ", "O", "R", " ">>

FacetQuery_AndJoined(kws) ==
  LET IsLong(kw) == TextLen(kw) > 2
      IsShort(kw) == TextLen(kw) <= 2
      starred == [i \in 1..Len(SelectSeq(kws, IsLong)) |->
                    Append(SelectSeq(kws, IsLong)[i], "*")]
  IN Join(starred \o SelectSeq(kws, IsShort), AndSep)

\* " OR ".join([f"{kw}*" for kw in kws if len(kw) > 2] + [kw for kw in kws if len(kw) <= 2])
FacetQuery(kws) ==
  LET IsLong(kw) == TextLen(kw) > 2
      IsShort(kw) == TextLen(kw) <= 2
      starred == [i \in 1..Len(SelectSeq(kws, IsLong)) |->
                    Append(SelectSeq(kws, IsLong)[i], "*")]
  IN Join(starred \o SelectSeq(kws, IsShort), OrSep)

\* the except branch: SELECT COUNT(*) FROM documents WHERE content LIKE ? OR ...
FacetLikeCount(kws, D) ==
  Cardinality({d \in D : \E i \in 1..Len(kws) :
                 LikeMatch(<<"%">> \o kws[i] \o <<"%">>, d.content)})

\* one count per facet, from the index and, when the index query is
\* rejected, from the substring scan
FacetQueries == [f \in FacetNames |-> FacetQuery(FACET_DEFS[f])]

\* what the engine makes of the facet queries, which never change
FacetLexed == [f \in FacetNames |-> FtsLex(FacetQueries[f])]
FacetRejected == [f \in FacetNames |-> FtsRejects(FacetQueries[f])]

_facet_counts(D, F) ==
  [f \in FacetNames |->
     IF FacetRejected[f] THEN FacetLikeCount(FACET_DEFS[f], D)
     ELSE Cardinality({e \in F : FtsMatches(FacetLexed[f].toks, e)})]

\* recompute_facet_counts(conn): the doc_count column as the connection of
\* the caller sees it after the UPDATEs
recompute_facet_counts(meta, D, F) ==
  [f \in DOMAIN meta |->
     IF FacetRejected[f] THEN FacetLikeCount(FACET_DEFS[f], D)
     ELSE Cardinality({e \in F : FtsMatches(FacetLexed[f].toks, e)})]

\* conn.close() on a connection whose last statements were not committed:
\* sqlite3 rolls the open transaction back
CloseUncommitted(committed, pending) == committed

\* the end of index_library: the facet counts, total_docs, conn.close() and
\* the summary.  The UPDATEs of recompute_facet_counts run outside every
\* "with conn:" block and no commit follows them.
SyncFinish(p) ==
  /\ pc[p] = "stale"
  /\ local[p].existing = {}
  /\ facet_meta' = CloseUncommitted(facet_meta,
                                    recompute_facet_counts(facet_meta, docs, docs_fts))
  /\ local' = [local EXCEPT ![p].total_docs = Cardinality(docs)]
  /\ pc' = [pc EXCEPT ![p] = "ret"]
  /\ lastDone' = IF local[p].uc THEN "cleaner" ELSE "raw"
  /\ UNCHANGED <<fs, has_pdf, docs, docs_fts, clock, REINDEX_STATE, compiled, search,
                 facets, wallVars, chunkVars, wizardVars, cleaned, safe, _profiles, reply>>

\* GET /api/facets
api_facets ==
  /\ ~facets.done
  /\ facets' = [done |-> TRUE, counts |-> _facet_counts(docs, docs_fts)]
  /\ UNCHANGED <<indexVars, wallVars, chunkVars, wizardVars>>

\* the answer has been sent
FacetsReturn ==
  /\ facets.done
  /\ facets' = NoFacets
  /\ UNCHANGED <<indexVars, wallVars, chunkVars, wizardVars>>

\* ------------------------------------------------------------------------
\* Login wall: login_required and the routes registered without it
\* ------------------------------------------------------------------------
Responded(route, status, body, changed) ==
  [route |-> route, anon |-> ~session.logged_in, status |-> status, body |-> body,
   changed |-> changed]

\* the routes of spellcaster_portal.py decorated with @login_required, but
\* for /api/reindex, which app.py wraps
GuardedRoutes ==
  {"/console_journal", "/", "/api/health", "/api/books", "/api/spell", "/file",
   "/api/notes", "/api/autocast", "/api/search", "/api/facets", "/api/reflect",
   "/journal_web", "/api/journal_reflect", "/home_hub", "/upload"}

\* POST /login: the credentials match or they do not
login(ok) ==
  /\ ~session.logged_in
  /\ session' = [logged_in |-> ok]
  /\ response' = Responded("/login", IF ok THEN 302 ELSE 200, <<>>, FALSE)
  /\ UNCHANGED <<indexVars, facets, uploads, chunkVars, wizardVars>>

\* GET /logout
logout ==
  /\ session' = [logged_in |-> FALSE]
  /\ response' = Responded("/logout", 302, <<>>, FALSE)
  /\ UNCHANGED <<indexVars, facets, uploads, chunkVars, wizardVars>>

\* the wrapper of login_required for a session that is not logged in
login_required(route) ==
  /\ ~session.logged_in
  /\ response' = Responded(route, 302, <<>>, FALSE)
  /\ UNCHANGED <<indexVars, facets, session, uploads, chunkVars, wizardVars>>

\* POST /api/reindex from a session that is not logged in: api_reindex_wrapper
\* runs around the login_required wrapper, which answers with the redirect
AnonReindex ==
  /\ ~session.logged_in
  /\ REINDEX_STATE' = [running |-> FALSE, started_at |-> clock, finished_at |-> clock,
                       last_error |-> "None", message |-> "Reindex finished."]
  /\ response' = Responded("/api/reindex", 302, <<>>, REINDEX_STATE' # REINDEX_STATE)
  /\ UNCHANGED <<fs, has_pdf, docs, docs_fts, clock, pc, local, lastDone, compiled, search,
                 facets, session, uploads, chunkVars, wizardVars, cleaned, safe, facet_meta, _profiles, reply>>

\* GET /reindex_status, registered without login_required
reindex_status ==
  /\ response' = Responded("/reindex_status", 200, <<REINDEX_STATE.message>>, FALSE)
  /\ UNCHANGED <<indexVars, facets, session, uploads, chunkVars, wizardVars>>

\* GET /assets/library/<name>: send_from_directory(BASE_DIR, filename),
\* registered without login_required
serve_asset(name) ==
  /\ response' = IF fs[name].st = "file" THEN Responded("/assets", 200, fs[name].raw, FALSE)
                 ELSE IF fs[name].st = "absent" THEN Responded("/assets", 404, <<>>, FALSE)
                 ELSE Responded("/assets", 500, <<>>, FALSE)
  /\ UNCHANGED <<indexVars, facets, session, uploads, chunkVars, wizardVars>>

\* POST /api/upload of app.py with one file, registered without
\* login_required: f.save(UPLOADS_DIR / name)
api_simple_upload(name, raw) ==
  /\ uploads' = [uploads EXCEPT ![name] = FileOf(raw)]
  /\ response' = Responded("/api/upload", 200, <<>>, uploads' # uploads)
  /\ UNCHANGED <<indexVars, facets, session, chunkVars, wizardVars>>

\* ------------------------------------------------------------------------
\* Resumable (chunked) uploads: the routes of the portal
\* ------------------------------------------------------------------------
\* the modules bound by the import statements of spellcaster_portal.py; the
\* upload routes and index_single_pdf also name uuid, json, shutil and
\* hashlib, which no statement of the module binds
ImportedModules == {"os", "re", "sqlite3", "unicodedata", "openai"}

\* a module in which every name the routes use is bound
NameError_Never(name) == FALSE

\* looking up a module name in a route raises NameError
NameError(name) == name \notin ImportedModules

\* the value of the environment variable UPLOAD_CHUNK_SIZE
UPLOAD_CHUNK_SIZE == 2

\* the byte a write past the end of a file leaves in the gap
NUL == "NUL"

\* the files and tables an upload route reads and writes
Store(S, P, L, D, F) == [sessions |-> S, parts |-> P, fs |-> L, docs |-> D, fts |-> F]

\* a response of an upload route and the store it leaves
NoBody == [upload_id |-> "", chunk_size |-> 0, received |-> <<>>]
Answer(status, error, body, W) == [status |-> status, error |-> error, body |-> body, store |-> W]

RECURSIVE SplitAt(_, _, _)
SplitAt(s, sep, cur) ==
  IF s = <<>> THEN <<cur>>
  ELSE IF Head(s) = sep THEN <<cur>> \o SplitAt(Tail(s), sep, <<>>)
  ELSE SplitAt(Tail(s), sep, Append(cur, Head(s)))

RECURSIVE LStripChar(_, _)
LStripChar(s, c) == IF s # <<>> /\ Head(s) = c THEN LStripChar(Tail(s), c) ELSE s

\* a sanitizer that keeps the components ".."
_safe_relpath_KeepsParent(relpath) ==
  LET flat == LStripChar(Replace(relpath, <<"\\">>, <<"/">>), "/")
      kept == SelectSeq(SplitAt(flat, "/", <<>>), LAMBDA seg : seg \notin {<<>>, <<".">>})
  IN Join(kept, <<"/">>)

\* relpath.replace("\\", "/").lstrip("/"), then the components that are not
\* "", "." or "..", joined with "/"
_safe_relpath(relpath) ==
  LET flat == LStripChar(Replace(relpath, <<"\\">>, <<"/">>), "/")
      kept == SelectSeq(SplitAt(flat, "/", <<>>),
                        LAMBDA seg : seg \notin {<<>>, <<".">>, <<".", ".">>})
  IN Join(kept, <<"/">>)

\* f.seek(offset); f.write(data) on a file holding old
WriteAt(old, offset, data) ==
  LET padded == old \o [i \in 1..(offset - Len(old)) |-> NUL]
  IN SubSeq(padded, 1, offset) \o data \o From(padded, offset + Len(data) + 1)

\* received.append(idx); received.sort()
RECURSIVE AppendSorted(_, _)
AppendSorted(received, idx) ==
  IF received = <<>> THEN <<idx>>
  ELSE IF idx < Head(received) THEN <<idx>> \o received
  ELSE <<Head(received)>> \o AppendSorted(Tail(received), idx)

Range(seq) == {seq[i] : i \in 1..Len(seq)}

api_upload_init(filename_arg, size, relpath_arg, W) ==
  LET filename == Strip(filename_arg)
      relpath == _safe_relpath(IF relpath_arg # <<>> THEN relpath_arg ELSE filename)
      free == {id \in UploadIds : ~W.sessions[id].exists}
      upload_id == CHOOSE id \in UploadIds : free # {} => id \in free
      state == [exists |-> TRUE, filename |-> filename, relpath |-> relpath,
                total_size |-> size, chunk_size |-> UPLOAD_CHUNK_SIZE, received |-> <<>>]
  IN IF filename = <<>> \/ size <= 0
     THEN Answer(400, "filename_and_size_required", NoBody, W)
     ELSE IF NameError("uuid") \/ NameError("json")
     THEN Answer(500, "NameError", NoBody, W)
     ELSE Answer(200, "",
                 [upload_id |-> upload_id, chunk_size |-> UPLOAD_CHUNK_SIZE, received |-> <<>>],
                 [W EXCEPT !.sessions[upload_id] = state,
                           !.parts[upload_id] = IF @.st = "file" THEN @ ELSE FileOf(<<>>)])

api_upload_status(upload_id, W) ==
  LET state == W.sessions[upload_id]
  IN IF ~state.exists
     THEN Answer(404, "not_found", NoBody, W)
     ELSE IF NameError("json")
     THEN Answer(500, "NameError", NoBody, W)
     ELSE Answer(200, "",
                 [upload_id |-> upload_id, chunk_size |-> state.chunk_size,
                  received |-> state.received], W)

\* has_chunk: the form carries the file "chunk"; idx: the form's index, -1
\* when it is missing or no number
api_upload_chunk(upload_id, has_chunk, idx, data, W) ==
  LET state == W.sessions[upload_id]
      old == IF W.parts[upload_id].st = "file" THEN W.parts[upload_id].raw ELSE <<>>
      received == IF idx \in Range(state.received) THEN state.received
                  ELSE AppendSorted(state.received, idx)
  IN IF ~state.exists
     THEN Answer(404, "not_found", NoBody, W)
     ELSE IF NameError("json")
     THEN Answer(500, "NameError", NoBody, W)
     ELSE IF ~has_chunk
     THEN Answer(400, "chunk_required", NoBody, W)
     ELSE IF idx < 0
     THEN Answer(400, "index_required", NoBody, W)
     ELSE Answer(200, "",
                 [upload_id |-> upload_id, chunk_size |-> state.chunk_size,
                  received |-> received],
                 [W EXCEPT !.parts[upload_id] = FileOf(WriteAt(old, idx * state.chunk_size, data)),
                           !.sessions[upload_id].received = received])

SizeMismatch(part, state) == Len(part.raw) # state.total_size

\* the sessions the model completes name an entry of the library
api_upload_complete(upload_id, W) ==
  LET state == W.sessions[upload_id]
      part == W.parts[upload_id]
      relpath == _safe_relpath(state.relpath)
      moved == [W.fs EXCEPT ![relpath] = FileOf(part.raw)]
      idx_result == index_single_pdf(relpath, moved[relpath], W.docs, W.fts)
  IN IF ~state.exists \/ part.st # "file"
     THEN Answer(404, "not_found", NoBody, W)
     ELSE IF NameError("json")
     THEN Answer(500, "NameError", NoBody, W)
     ELSE IF SizeMismatch(part, state)
     THEN Answer(400, "size_mismatch", NoBody, W)
     ELSE IF NameError("shutil")
     THEN Answer(500, "NameError", NoBody, W)
     ELSE Answer(200, "", NoBody,
                 Store([W.sessions EXCEPT ![upload_id] = NoSession],
                       [W.parts EXCEPT ![upload_id] = Absent],
                       moved, idx_result.docs, idx_result.fts))

\* the store as the routes find it
Here == Store(sessions, parts, fs, docs, docs_fts)

\* the session has a state file and a part file whose size is not the
\* declared total
Mismatched(upload_id, W) ==
  /\ upload_id \in UploadIds
  /\ W.sessions[upload_id].exists
  /\ W.parts[upload_id].st = "file"
  /\ SizeMismatch(W.parts[upload_id], W.sessions[upload_id])

\* a route has answered: the store it leaves and its response, with what the
\* route found (mismatch) and whether it left every file and table as it was
Answered(route, upload_id, a) ==
  /\ sessions' = a.store.sessions
  /\ parts' = a.store.parts
  /\ fs' = a.store.fs
  /\ docs' = a.store.docs
  /\ docs_fts' = a.store.fts
  /\ upload_resp' = [route |-> route, id |-> upload_id, status |-> a.status, error |-> a.error,
                      mismatch |-> Mismatched(upload_id, Here), kept |-> a.store = Here]
  /\ UNCHANGED <<has_pdf, clock, pc, local, REINDEX_STATE, lastDone, compiled, search,
                 facets, wallVars, client, wizardVars, cleaned, safe, facet_meta, _profiles, reply>>

UploadInit(filename, size) == Answered("init", "", api_upload_init(filename, size, <<>>, Here))

UploadStatus(upload_id) == Answered("status", upload_id, api_upload_status(upload_id, Here))

UploadChunk(upload_id, has_chunk, idx, data) ==
  Answered("chunk", upload_id, api_upload_chunk(upload_id, has_chunk, idx, data, Here))

UploadComplete(upload_id) ==
  Answered("complete", upload_id, api_upload_complete(upload_id, Here))

\* ------------------------------------------------------------------------
\* upload_client.py: one run over a library that holds one PDF
\* ------------------------------------------------------------------------
\* a request of the client
Call(op, upload_id, idx) == [op |-> op, id |-> upload_id, idx |-> idx]

\* the client after its requests: failed when raise_for_status raised,
\* killed when the process was stopped while a request was being served
Run(calls, outcome, W) == [calls |-> calls, outcome |-> outcome, store |-> W]

\* the process is stopped during its k-th request; None: it is not stopped
Killed(calls, killed_at) == killed_at # None /\ Len(calls) >= killed_at

\* f.read(chunk_size) for the idx-th time
ChunkOf(raw, chunk_size, idx) ==
  SubSeq(raw, idx * chunk_size + 1, Min((idx + 1) * chunk_size, Len(raw)))

\* the loop of upload_one_pdf from chunk idx on, then complete_upload
RECURSIVE SendChunks(_, _, _, _, _, _, _, _)
SendChunks(upload_id, raw, chunk_size, received, idx, calls, killed_at, W) ==
  IF ChunkOf(raw, chunk_size, idx) = <<>>
  THEN LET done == api_upload_complete(upload_id, W)
           all == Append(calls, Call("complete", upload_id, None))
       IN IF Killed(all, killed_at) THEN Run(all, "killed", done.store)
          ELSE IF done.status >= 400 THEN Run(all, "failed", done.store)
          ELSE Run(all, "complete", done.store)
  ELSE IF idx \in received
  THEN SendChunks(upload_id, raw, chunk_size, received, idx + 1, calls, killed_at, W)
  ELSE LET sent == api_upload_chunk(upload_id, TRUE, idx, ChunkOf(raw, chunk_size, idx), W)
           all == Append(calls, Call("chunk", upload_id, idx))
       IN IF Killed(all, killed_at) THEN Run(all, "killed", sent.store)
          ELSE IF sent.status >= 400 THEN Run(all, "failed", sent.store)
          ELSE SendChunks(upload_id, raw, chunk_size, received, idx + 1, all, killed_at,
                          sent.store)

\* upload_one_pdf, asking the status of the session that the init request named
upload_one_pdf(name, raw, killed_at, W) ==
  LET init == api_upload_init(name, Len(raw), name, W)
      c1 == <<Call("init", "", None)>>
      upload_id == init.body.upload_id
      st == api_upload_status(upload_id, init.store)
      c2 == Append(c1, Call("status", upload_id, None))
  IN IF Killed(c1, killed_at) THEN Run(c1, "killed", init.store)
     ELSE IF init.status >= 400 THEN Run(c1, "failed", init.store)
     ELSE IF Killed(c2, killed_at) THEN Run(c2, "killed", st.store)
     ELSE IF st.status >= 400 THEN Run(c2, "failed", st.store)
     ELSE SendChunks(upload_id, raw, init.body.chunk_size, Range(st.body.received), 0, c2,
                     killed_at, st.store)

\* the PDF of the client's library
ClientFile == FilePdf
ClientRaw == RawWard

\* the sessions of the server that hold chunks of the file
PartialsOf(name, S) ==
  {[id |-> id, received |-> Range(S[id].received)] :
     id \in {u \in UploadIds : S[u].exists /\ S[u].relpath = name /\ S[u].received # <<>>}}

\* one run of the client
ClientRun(killed_at) ==
  LET run == upload_one_pdf(ClientFile, ClientRaw, killed_at, Here)
  IN /\ client' = [file |-> ClientFile, calls |-> run.calls, outcome |-> run.outcome,
                   had |-> PartialsOf(ClientFile, sessions)]
     /\ sessions' = run.store.sessions
     /\ parts' = run.store.parts
     /\ fs' = run.store.fs
     /\ docs' = run.store.docs
     /\ docs_fts' = run.store.fts
     /\ UNCHANGED <<has_pdf, clock, pc, local, REINDEX_STATE, lastDone, compiled, search,
                    facets, wallVars, upload_resp, wizardVars, cleaned, safe, facet_meta, _profiles, reply>>

\* ------------------------------------------------------------------------
\* World Builder: the wizards of the chat engine
\* ------------------------------------------------------------------------
\* the fields of the questions, in the order they are asked
base10 ==
  <<"biome", "climate", "magic", "tech", "governance", "economy", "danger", "mood",
    "species", "sky">>
extra10 ==
  <<"faction", "hazard", "resource", "travel", "art", "holiday", "law", "outsiders",
    "aesthetic", "creature">>
extra20 ==
  <<"seasons", "currency", "belief", "food", "tone", "threat", "magic_source", "defense",
    "portals", "secret">>

QUESTION_BANK ==
  [beginner |-> base10, medium |-> base10 \o extra10, advanced |-> base10 \o extra10 \o extra20]

HOME_QUESTIONS == <<"style", "size", "theme", "materials", "security", "amenities">>

\* every question has ten options
OPTION_COUNT == 10

wizard_start(mode, difficulty) ==
  [active |-> TRUE,
   mode |-> mode,
   difficulty |-> IF mode = "home" THEN "home"
                  ELSE IF difficulty \notin DOMAIN QUESTION_BANK THEN "beginner"
                  ELSE difficulty,
   step |-> 0,
   answers |-> {}]

QuestionsOf(state) == IF state.mode = "world" THEN QUESTION_BANK[state.difficulty] ELSE HOME_QUESTIONS

\* wizard_question: the field of the question to ask, or "(done)"
wizard_question(state) ==
  IF state.step >= Len(QuestionsOf(state)) THEN "(done)" ELSE QuestionsOf(state)[state.step + 1]

\* int(raw) for a text of digits with an optional sign; ok: no ValueError
DigitSeq == <<"0", "1", "2", "3", "4", "5", "6", "7", "8", "9">>
DigitValue(c) == (CHOOSE i \in 1..10 : DigitSeq[i] = c) - 1

RECURSIVE DigitsValue(_, _)
DigitsValue(s, acc) == IF s = <<>> THEN acc ELSE DigitsValue(Tail(s), 10 * acc + DigitValue(Head(s)))

ParseInt(raw) ==
  LET signed == raw # <<>> /\ Head(raw) \in {"-", "+"}
      digits == IF signed THEN Tail(raw) ELSE raw
  IN IF digits = <<>> \/ \E i \in 1..Len(digits) : digits[i] \notin Range(DigitSeq)
     THEN [ok |-> FALSE, value |-> 0]
     ELSE [ok |-> TRUE,
           value |-> IF signed /\ Head(raw) = "-" THEN 0 - DigitsValue(digits, 0)
                     ELSE DigitsValue(digits, 0)]

CancelWords ==
  {<<"c", "a", "n", "c", "e", "l">>, <<"!", "c", "a", "n", "c", "e", "l">>,
   <<"s", "t", "o", "p">>, <<"q", "u", "i", "t">>}
BackWords == {<<"b", "a", "c", "k">>, <<"!", "b", "a", "c", "k">>}

\* the range check of wizard_apply_answer, without it
InRange_AnyNumber(idx) == TRUE

InRange(idx) == 1 <= idx /\ idx <= OPTION_COUNT

\* wizard_apply_answer: the state it returns and its error message ("" for None)
wizard_apply_answer(state, raw_arg) ==
  LET raw == Strip(raw_arg)
      qs == QuestionsOf(state)
      idx == ParseInt(raw)
  IN IF Lower(raw) \in CancelWords
     THEN [state |-> state, err |-> "Wizard cancelled."]
     ELSE IF state.step >= Len(qs)
     THEN [state |-> state, err |-> ""]
     ELSE IF ~idx.ok
     THEN [state |-> state, err |-> "Please answer with a number 1-10 (or type cancel)."]
     ELSE IF ~InRange(idx.value)
     THEN [state |-> state, err |-> "Please pick a number from 1 to 10 (or type cancel)."]
     ELSE [state |-> [state EXCEPT !.answers = @ \cup {qs[state.step + 1]}, !.step = @ + 1],
           err |-> ""]

\* _next_id: one more than the largest number in use
RECURSIVE MaxIdOf(_)
MaxIdOf(items) == IF items = <<>> THEN 0 ELSE Max(Head(items).id, MaxIdOf(Tail(items)))
_next_id(items) == MaxIdOf(items) + 1

\* create_world after wizard_finalize, then _world_update with the owner
create_world(state, user, W) ==
  Append(W, [id |-> _next_id(W), tags |-> <<state.difficulty, "wizard">>,
             answers |-> state.answers, owner |-> user])

create_home(state, H) == Append(H, [id |-> _next_id(H), answers |-> state.answers])

StartsWithBang(text) == MatchAt(text, 1, <<"!">>)

\* what the tally counts as a valid answer: a number from 1 to 10
Counted(text) == IF ParseInt(text).ok /\ ParseInt(text).value \in 1..10 THEN 1 ELSE 0

\* handle_input for a session inside a wizard, on a text the wizard takes
WizardInput(sid, user, text_arg) ==
  LET text == Strip(text_arg)
      st == _wizard[sid]
      back == [st EXCEPT !.step = Max(0, st.step - 1)]
      applied == wizard_apply_answer(st, text)
  IN /\ st.active
     /\ ~StartsWithBang(text) \/ Lower(text) \in (BackWords \cup CancelWords)
     /\ IF Lower(text) \in BackWords
        THEN /\ _wizard' = [_wizard EXCEPT ![sid] = back]
             /\ tally' = [tally EXCEPT ![sid].backs = @ + (st.step - back.step)]
             /\ UNCHANGED <<worlds, homes>>
        ELSE IF applied.err # ""
        THEN /\ tally' = [tally EXCEPT ![sid].cancelled = @ \/ Lower(text) \in CancelWords]
             /\ UNCHANGED <<_wizard, worlds, homes>>
        ELSE IF wizard_question(applied.state) # "(done)"
        THEN /\ _wizard' = [_wizard EXCEPT ![sid] = applied.state]
             /\ tally' = [tally EXCEPT ![sid].valid = @ + Counted(text)]
             /\ UNCHANGED <<worlds, homes>>
        ELSE /\ _wizard' = [_wizard EXCEPT ![sid] = NoWizard]
             /\ worlds' = IF st.mode = "world" THEN create_world(applied.state, user, worlds)
                          ELSE worlds
             /\ homes' = IF st.mode = "world" THEN homes ELSE create_home(applied.state, homes)
             /\ tally' = [tally EXCEPT ![sid].valid = @ + Counted(text),
                                       ![sid].created = @ + 1]
     /\ UNCHANGED <<indexVars, facets, wallVars, chunkVars>>

\* !create world [difficulty] [name]: args are the words after "world"
CreateWorldWizard(sid, args) ==
  LET difficulty == IF Len(args) >= 1 /\ args[1] \in {"beginner", "medium", "advanced"}
                    THEN args[1] ELSE "beginner"
      st == wizard_start("world", difficulty)
  IN /\ Len(worlds) + Len(homes) < MaxCreated
     /\ _wizard' = [_wizard EXCEPT ![sid] = st]
     /\ tally' = [tally EXCEPT ![sid] = [NoTally EXCEPT !.mode = "world", !.difficulty = st.difficulty]]
     /\ UNCHANGED <<indexVars, facets, wallVars, chunkVars, worlds, homes>>

\* !create home; selected: the profile of the user names a world
CreateHomeWizard(sid, selected) ==
  LET st == wizard_start("home", "home")
  IN /\ Len(worlds) + Len(homes) < MaxCreated
     /\ _wizard' = [_wizard EXCEPT ![sid] =
                      IF selected THEN [st EXCEPT !.answers = {"world"}] ELSE st]
     /\ tally' = [tally EXCEPT ![sid] = [NoTally EXCEPT !.mode = "home", !.difficulty = "home"]]
     /\ UNCHANGED <<indexVars, facets, wallVars, chunkVars, worlds, homes>>

\* ------------------------------------------------------------------------
\* Specifications
\* ------------------------------------------------------------------------
\* one request at a time, the library untouched while it is served
Quiet(A) == AllIdle /\ A

\* the library entries that are written, removed and damaged between requests
Writable == {FileTxt, FilePdf}

Requests ==
  \/ \E name \in Writable : \E raw \in RawTextsOf(name) : Quiet(WriteFile(name, raw))
  \/ \E name \in Writable : Quiet(RemoveFile(name))
  \/ \E name \in Writable : Quiet(DamageFile(name))
  \/ \E uc \in BOOLEAN : Quiet(ApiReindex(1, uc))
  \/ \E name \in Files : \E raw \in RawTextsOf(name) : Quiet(Upload(1, name, raw))
  \/ \E name \in Files : Quiet(IndexSinglePdf(1, name))
  \/ SyncFile(1)
  \/ SyncDeleteStale(1)
  \/ SyncFinish(1)
  \/ Return(1)

Next ==
  \/ Requests
  \/ Tick

Spec == InitImage /\ [][Next]_vars

\* the contents written while requests overlap
ConcRawsOf(name) ==
  IF name = FileTxt THEN {RawWard, RawCamel}
  ELSE IF name = FilePdf THEN {RawWard}
  ELSE {}

\* requests served by concurrent handlers
NextConc ==
  \/ \E name \in Files : \E raw \in ConcRawsOf(name) : Quiet(WriteFile(name, raw))
  \/ \E name \in Files : Quiet(RemoveFile(name))
  \/ \E p \in Procs, uc \in BOOLEAN : ApiReindex(p, uc)
  \/ \E p \in Procs, name \in Files : \E raw \in ConcRawsOf(name) : Upload(p, name, raw)
  \/ \E p \in Procs, name \in Files : IndexSinglePdf(p, name)
  \/ \E p \in Procs : SyncFile(p)
  \/ \E p \in Procs : SyncDeleteStale(p)
  \/ \E p \in Procs : SyncFinish(p)
  \/ \E p \in Procs : Return(p)

SpecConc == Init /\ [][NextConc]_vars

\* the query strings and the like arguments of the search requests
SearchQueries ==
  {<<>>, <<"w", "a", "r", "d">>, <<" ", "w", "a">>, <<"a", " ", "b">>, <<"a", "B">>,
   <<"w", ".">>, <<"w", "_", "r">>, <<"x">>, <<"W", "a", "r", "d", " ", "O", "R", " ", "x">>,
   <<"\"", "a">>, <<RUN>>}

LikeArgs == {"1", "0", "absent"}

\* searches between the requests that change the store
NextSearch ==
  \/ ~search.done /\ Requests
  \/ \E q \in SearchQueries, like \in LikeArgs : Quiet(Search(q, like))
  \/ SearchReturn

SpecSearch == InitImage /\ [][NextSearch]_vars

\* the queries of the readers that search while a sync is running
ReadQueries == {<<"w", "a", "r", "d">>, <<"a">>, <<"w">>}

\* searches at any moment of the requests that change the store: every
\* "with conn:" block of index_library is one transaction, committed at
\* once, and the search reads through a connection of its own
NextRead ==
  \/ ~search.done /\ Requests
  \/ \E q \in ReadQueries, like \in {"0", "1"} : Search(q, like)
  \/ SearchReturn

SpecRead == InitImage /\ [][NextRead]_vars

\* one client, logged in or not, and every route it can request
NextWall ==
  \/ \E ok \in BOOLEAN : login(ok)
  \/ logout
  \/ \E route \in GuardedRoutes : login_required(route)
  \/ AnonReindex
  \/ reindex_status
  \/ \E name \in Files : serve_asset(name)
  \/ \E name \in {FilePdf, FileJpg} : api_simple_upload(name, RawWard)
  \/ session.logged_in /\ \E uc \in BOOLEAN : Quiet(ApiReindex(1, uc))
  \/ session.logged_in /\ \E name \in Files : \E raw \in RawTextsOf(name) : Quiet(Upload(1, name, raw))
  \/ SyncFile(1)
  \/ SyncDeleteStale(1)
  \/ SyncFinish(1)
  \/ Return(1)

SpecWall == InitImage /\ [][NextWall]_vars

\* what UPLOADS_DIR can hold when the portal starts: nothing, or the session
\* of an upload of the client's file of which the first chunk, every chunk,
\* or the last chunk only has arrived
LeftSession(received, part) ==
  [sessions |-> [NoSessions EXCEPT !["u1"] =
                   [exists |-> TRUE, filename |-> ClientFile, relpath |-> ClientFile,
                    total_size |-> Len(ClientRaw), chunk_size |-> UPLOAD_CHUNK_SIZE,
                    received |-> received]],
   parts |-> [NoParts EXCEPT !["u1"] = FileOf(part)]]

LeftSessions ==
  {[sessions |-> NoSessions, parts |-> NoParts],
   LeftSession(<<0>>, ChunkOf(ClientRaw, UPLOAD_CHUNK_SIZE, 0)),
   LeftSession(<<0, 1>>, ClientRaw),
   LeftSession(<<1>>, WriteAt(<<>>, UPLOAD_CHUNK_SIZE, ChunkOf(ClientRaw, UPLOAD_CHUNK_SIZE, 1)))}

InitUpload ==
  \E left \in LeftSessions :
    InitStore([f \in Files |-> IF f = FileJpg THEN FileOf(RawWard) ELSE Absent],
              left.sessions, left.parts)

\* requests to the upload routes and runs of the client
NextUpload ==
  \/ \E filename \in {<<>>, ClientFile}, size \in {0, Len(ClientRaw)} : UploadInit(filename, size)
  \/ \E id \in UploadIds : UploadStatus(id)
  \/ \E id \in UploadIds, has_chunk \in BOOLEAN, idx \in {-1, 0, 1} :
       UploadChunk(id, has_chunk, idx, ChunkOf(ClientRaw, UPLOAD_CHUNK_SIZE, Max(idx, 0)))
  \/ \E id \in UploadIds : UploadComplete(id)
  \/ \E killed_at \in {None, 1, 2} : ClientRun(killed_at)

SpecUpload == InitUpload /\ [][NextUpload]_vars

\* the pieces the arguments of clean_text are put together from
Pieces ==
  {<<"a">>, <<"B">>, <<" ">>, <<"\t">>, <<"\n">>, <<"\r">>, <<"-">>, <<".">>, <<ZWSP>>,
   <<COMB>>, <<"e">>, <<"1">>}

RECURSIVE PieceStrings(_)
PieceStrings(n) ==
  IF n = 0 THEN {<<>>}
  ELSE LET shorter == PieceStrings(n - 1)
       IN shorter \cup {s \o f : s \in shorter, f \in Pieces}

InitClean ==
  /\ fs = [f \in Files |-> Absent]
  /\ has_pdf = TRUE
  /\ docs = {}
  /\ docs_fts = {}
  /\ clock = 0
  /\ pc = [p \in Procs |-> "idle"]
  /\ local = [p \in Procs |-> IdleLocal]
  /\ REINDEX_STATE = [running |-> FALSE, message |-> "Ready.", started_at |-> None,
                      finished_at |-> None, last_error |-> "None"]
  /\ lastDone = "none"
  /\ compiled = NotCompiled(<<>>)
  /\ search = NoSearch
  /\ cleaned \in {NotCleaned(raw) : raw \in PieceStrings(MaxPieces)}
  /\ safe = NotSafe(<<>>)
  /\ InitRest
  /\ sessions = NoSessions
  /\ parts = NoParts

\* text = clean_text(raw)
Clean ==
  /\ ~cleaned.done
  /\ cleaned' = Cleaned(cleaned.raw, clean_text(cleaned.raw))
  /\ UNCHANGED <<fs, has_pdf, docs, docs_fts, clock, pc, local, REINDEX_STATE, lastDone,
                 compiled, search, facets, wallVars, chunkVars, wizardVars, safe, facet_meta, _profiles, reply>>

NextClean == Clean

SpecClean == InitClean /\ [][NextClean]_vars

\* the contents of the documents the substring fallback is run over, and the
\* queries it is asked
SnippetTexts ==
  {<<"a", "<", "b">>, <<"a", " ", "&", " ", "b">>, <<"W", "a", ">", "b">>,
   <<"<", "l", "t">>, <<"w", "a", "r", "d">>}

SnippetQueries ==
  {<<"<">>, <<"&">>, <<">", "b">>, <<"a", "<", "b">>, <<"l", "t">>, <<"w", "a">>, <<"A">>,
   <<"a", "r">>}

\* the row a sync inserts for the library file with that text
SnippetRow(id, content) ==
  LET name == IF id = 1 THEN FileTxt ELSE FilePdf
  IN [id |-> id, title |-> title_from_path(name), path |-> RelToBase(name),
      content |-> content, created_at |-> 0, updated_at |-> 0]

\* a store of one or two documents with the given contents
InitSnippet ==
  /\ fs = [f \in Files |-> Absent]
  /\ has_pdf = TRUE
  /\ \E c1 \in SnippetTexts, c2 \in SnippetTexts :
       docs = {SnippetRow(1, c1)} \cup (IF c2 = c1 THEN {} ELSE {SnippetRow(2, c2)})
  /\ docs_fts = {FtsEntry(r) : r \in docs}
  /\ clock = 0
  /\ pc = [p \in Procs |-> "idle"]
  /\ local = [p \in Procs |-> IdleLocal]
  /\ REINDEX_STATE = [running |-> FALSE, message |-> "Ready.", started_at |-> None,
                      finished_at |-> None, last_error |-> "None"]
  /\ lastDone = "none"
  /\ compiled = NotCompiled(<<>>)
  /\ search = NoSearch
  /\ cleaned = NotCleaned(<<>>)
  /\ safe = NotSafe(<<>>)
  /\ InitRest
  /\ sessions = NoSessions
  /\ parts = NoParts

NextSnippet ==
  \/ \E q \in SnippetQueries, like \in LikeArgs : Search(q, like)
  \/ SearchReturn

SpecSnippet == InitSnippet /\ [][NextSnippet]_vars

\* the characters and the strings a client sends as relpath
RelpathChars == {"a", "/", "\\", "."}

RECURSIVE RelpathStrings(_)
RelpathStrings(n) ==
  IF n = 0 THEN {<<>>}
  ELSE LET shorter == RelpathStrings(n - 1)
       IN shorter \cup {Append(s, c) : s \in shorter, c \in RelpathChars}

InitRelpath ==
  /\ fs = [f \in Files |-> Absent]
  /\ has_pdf = TRUE
  /\ docs = {}
  /\ docs_fts = {}
  /\ clock = 0
  /\ pc = [p \in Procs |-> "idle"]
  /\ local = [p \in Procs |-> IdleLocal]
  /\ REINDEX_STATE = [running |-> FALSE, message |-> "Ready.", started_at |-> None,
                      finished_at |-> None, last_error |-> "None"]
  /\ lastDone = "none"
  /\ compiled = NotCompiled(<<>>)
  /\ search = NoSearch
  /\ cleaned = NotCleaned(<<>>)
  /\ safe \in {NotSafe(r) : r \in RelpathStrings(MaxRelpath)}
  /\ InitRest
  /\ sessions = NoSessions
  /\ parts = NoParts

\* out = _safe_relpath(relpath)
Sanitize ==
  /\ ~safe.done
  /\ safe' = Safe(safe.relpath, _safe_relpath(safe.relpath))
  /\ UNCHANGED <<fs, has_pdf, docs, docs_fts, clock, pc, local, REINDEX_STATE, lastDone,
                 compiled, search, facets, wallVars, chunkVars, wizardVars, cleaned,
                 facet_meta, _profiles, reply>>

NextRelpath == Sanitize

SpecRelpath == InitRelpath /\ [][NextRelpath]_vars

\* the texts a chat session sends to its wizard
WizardTexts ==
  {<<"1">>, <<"1", "0">>, <<"0">>, <<"1", "1">>, <<"x">>,
   <<" ", "7">>, <<"B", "a", "c", "k">>}

User == "u"

\* the words after "!create world": the first session starts wizards of every
\* difficulty, the second one beginner wizards beside them
CreateArgs(sid) ==
  IF sid = "s1" THEN {<<>>, <<"medium">>, <<"advanced", "Vale">>, <<"Vale">>} ELSE {<<>>}

\* the steps back taken by the wizards of the sessions
RECURSIVE BacksTaken(_)
BacksTaken(S) ==
  IF S = {} THEN 0 ELSE LET sid == CHOOSE x \in S : TRUE IN tally[sid].backs + BacksTaken(S \ {sid})

NextWizard ==
  \/ \E sid \in Sids, text \in WizardTexts :
       /\ Lower(text) \in BackWords => BacksTaken(Sids) < MaxBacks
       /\ WizardInput(sid, User, text)
  \/ \E sid \in Sids : \E args \in CreateArgs(sid) : CreateWorldWizard(sid, args)
  \/ \E sid \in Sids, selected \in BOOLEAN : CreateHomeWizard(sid, selected)

\* the chat engine reads neither the library nor HAS_PDF
InitWizard == InitImage /\ has_pdf = TRUE

SpecWizard == InitWizard /\ [][NextWizard]_vars

\* ------------------------------------------------------------------------
\* The chat engine's worlds, homes and access control (world_engine.py)
\* ------------------------------------------------------------------------
\* the worlds and homes the chat commands may create in all
MaxMade == 2

\* f"{prefix}{n:03d}" of _next_id, for the ids below 10
IdText(prefix, n) == <<prefix, "0", "0", DigitSeq[n + 1]>>

\* the first index of a non-empty set of indexes
FirstOf(S) == CHOOSE i \in S : \A j \in S : i <= j

\* get_world on the stored worlds: the index of the first world whose id or
\* name is the stripped argument, case-insensitively; 0 for None
get_world(W, world_id_or_name) ==
  LET s == Lower(Strip(world_id_or_name))
      hits == {i \in 1..Len(W) : Lower(IdText("W", W[i].id)) = s \/ Lower(W[i].name) = s}
  IN IF hits = {} THEN 0 ELSE FirstOf(hits)

\* get_home on the stored homes, in the same way
get_home(H, home_id_or_name) ==
  LET s == Lower(Strip(home_id_or_name))
      hits == {i \in 1..Len(H) : Lower(IdText("H", H[i].id)) = s \/ Lower(H[i].name) = s}
  IN IF hits = {} THEN 0 ELSE FirstOf(hits)

\* the owner test of "!world lock" and "!world allow", without it
IsOwner_Anyone(world, user) == TRUE

\* str(w.get("owner", "")) != user, negated
IsOwner(world, user) == world.owner = user

\* _world_access: the owner, everybody on a public world, the allowed users
_world_access(world, user) ==
  \/ user # "" /\ world.owner # "" /\ user = world.owner
  \/ world.visibility = "public"
  \/ user \in Range(world.allowed_users)

\* Engine.state_payload(user): the accessible worlds and the homes whose
\* world field is the id of one of them
state_payload(W, H, user) ==
  LET world_ids == {W[i].id : i \in {j \in 1..Len(W) : _world_access(W[j], user)}}
  IN [sent |-> TRUE, worlds |-> world_ids,
      homes |-> {H[i].id : i \in {j \in 1..Len(H) : H[j].world \in world_ids}}]

\* an answer of handle_input that changes nothing and carries no data
Said(user, body) == [NoReply EXCEPT !.to = user, !.body = body]

\* an answer that carries the data of worlds and homes
Shown(user, body, ws, hs) == [Said(user, body) EXCEPT !.worlds = ws, !.homes = hs]

\* an answer with state_changed, and the state payload on_chat sends after it
Changed(user, body, ws, hs, W, H) ==
  [Shown(user, body, ws, hs) EXCEPT !.state_changed = TRUE,
                                         !.state = state_payload(W, H, user)]

\* everything the chat commands leave alone
chatFrame == <<fs, has_pdf, docs, docs_fts, clock, pc, local, REINDEX_STATE, lastDone,
               compiled, search, facets, wallVars, chunkVars, _wizard, tally, cleaned,
               safe, facet_meta>>

\* on_connect and on_set_name: the state payload for the name of the user
SetName(user) ==
  /\ reply' = [Said(user, "") EXCEPT !.state = state_payload(worlds, homes, user)]
  /\ UNCHANGED <<chatFrame, worlds, homes, _profiles>>

\* "!world list", and "!population" without a name: the accessible worlds
WorldList(cmd, user) ==
  LET ws == {worlds[i].id : i \in {j \in 1..Len(worlds) : _world_access(worlds[j], user)}}
  IN /\ reply' = IF ws = {} /\ cmd = "!world list"
                 THEN Said(user, "No worlds found.")
                 ELSE Shown(user, "rows", ws, {})
     /\ UNCHANGED <<chatFrame, worlds, homes, _profiles>>

\* "!home list": the homes of the state payload
HomeList(user) ==
  LET hs == state_payload(worlds, homes, user).homes
  IN /\ reply' = IF hs = {} THEN Said(user, "No accessible homes yet.")
                 ELSE Shown(user, "rows", {}, hs)
     /\ UNCHANGED <<chatFrame, worlds, homes, _profiles>>

\* "!stats", "!population" and "!map" with a name: the access check on the
\* world get_world finds, then world_stats, world_population or ascii_map on
\* its id, which look the world up once more
WorldQuery(cmd, user, name) ==
  LET w == get_world(worlds, name)
      again == get_world(worlds, IdText("W", worlds[w].id))
  IN /\ reply' = IF w = 0 \/ ~_world_access(worlds[w], user)
                 THEN Said(user, "World not found or locked.")
                 ELSE Shown(user, "world", {worlds[again].id}, {})
     /\ UNCHANGED <<chatFrame, worlds, homes, _profiles>>

\* "!home stats" and "!home map": the access check on the world get_world
\* finds for the world field of the home, then home_stats or ascii_home on
\* the id of the home, which look the home up once more
HomeQuery(cmd, user, name) ==
  LET h == get_home(homes, name)
      w == get_world(worlds, IdText("W", homes[h].world))
      again == get_home(homes, IdText("H", homes[h].id))
  IN /\ reply' = IF h = 0 THEN Said(user, "Home not found.")
                 ELSE IF w = 0 \/ ~_world_access(worlds[w], user)
                 THEN Said(user, "Home belongs to a world you can't access.")
                 ELSE Shown(user, "home", {}, {homes[again].id})
     /\ UNCHANGED <<chatFrame, worlds, homes, _profiles>>

\* "!select world": the profile of the user, and the id and name of the world
SelectWorld(user, name) ==
  LET w == get_world(worlds, name)
  IN IF w = 0 \/ ~_world_access(worlds[w], user)
     THEN /\ reply' = Said(user, "World not found or locked.")
          /\ UNCHANGED <<chatFrame, worlds, homes, _profiles>>
     ELSE /\ _profiles' = [_profiles EXCEPT ![user] = worlds[w].id]
          /\ reply' = Shown(user, "selected", {worlds[w].id}, {})
          /\ UNCHANGED <<chatFrame, worlds, homes>>

\* "!world create --name ... --visibility ...": the user owns the world and
\* is the first of its allowed users
WorldCreate(user, name, visibility) ==
  LET created == [id |-> _next_id(worlds), name |-> name, owner |-> user,
                  visibility |-> visibility, allowed_users |-> <<user>>]
  IN /\ Len(worlds) + Len(homes) < MaxMade
     /\ worlds' = Append(worlds, created)
     /\ reply' = Changed(user, "created", {created.id}, {}, worlds', homes)
     /\ UNCHANGED <<chatFrame, homes, _profiles>>

\* "!home create --name ... --world ...": only in a world the user can access
HomeCreate(user, name, world_id) ==
  LET w == get_world(worlds, world_id)
      created == [id |-> _next_id(homes), name |-> name, world |-> worlds[w].id,
                  owner |-> user]
  IN IF w = 0 \/ ~_world_access(worlds[w], user)
     THEN /\ reply' = Said(user, "World not found or locked.")
          /\ UNCHANGED <<chatFrame, worlds, homes, _profiles>>
     ELSE /\ Len(worlds) + Len(homes) < MaxMade
          /\ homes' = Append(homes, created)
          /\ reply' = Changed(user, "created", {}, {created.id}, worlds, homes')
          /\ UNCHANGED <<chatFrame, worlds, _profiles>>

\* the first occurrence of who taken out of a list: list.remove
RemoveFirst(allow, who) ==
  LET i == FirstOf({j \in 1..Len(allow) : allow[j] = who})
  IN SubSeq(allow, 1, i - 1) \o SubSeq(allow, i + 1, Len(allow))

\* the write back of a changed world: the first stored world with its id
Persist(W, w) ==
  LET i == FirstOf({j \in 1..Len(W) : W[j].id = w.id}) IN [W EXCEPT ![i] = w]

\* "!world lock <WID> public|private"; mode as args[2].lower() leaves it
WorldLock(user, wid, mode) ==
  LET i == get_world(worlds, wid)
      w == worlds[i]
      allow == IF mode = "private" /\ user \notin Range(w.allowed_users)
               THEN Append(w.allowed_users, user) ELSE w.allowed_users
      locked == [w EXCEPT !.visibility = mode, !.allowed_users = allow]
  IN IF i = 0
     THEN /\ reply' = Said(user, "World not found.")
          /\ UNCHANGED <<chatFrame, worlds, homes, _profiles>>
     ELSE IF ~IsOwner(w, user)
     THEN /\ reply' = Said(user, "Only the owner can lock/unlock a world.")
          /\ UNCHANGED <<chatFrame, worlds, homes, _profiles>>
     ELSE IF mode \notin {"public", "private"}
     THEN /\ reply' = Said(user, "Usage: !world lock <WID> public|private")
          /\ UNCHANGED <<chatFrame, worlds, homes, _profiles>>
     ELSE /\ worlds' = Persist(worlds, locked)
          /\ reply' = Changed(user, "set", {w.id}, {}, worlds', homes)
          /\ UNCHANGED <<chatFrame, homes, _profiles>>

\* "!world allow <WID> add|remove <username>"; action as args[2].lower()
\* leaves it
WorldAllow(user, wid, action, who) ==
  LET i == get_world(worlds, wid)
      w == worlds[i]
      allow == IF action = "add"
               THEN IF who \notin Range(w.allowed_users)
                    THEN Append(w.allowed_users, who) ELSE w.allowed_users
               ELSE IF who \in Range(w.allowed_users) /\ who # user
                    THEN RemoveFirst(w.allowed_users, who) ELSE w.allowed_users
  IN IF i = 0
     THEN /\ reply' = Said(user, "World not found.")
          /\ UNCHANGED <<chatFrame, worlds, homes, _profiles>>
     ELSE IF ~IsOwner(w, user)
     THEN /\ reply' = Said(user, "Only the owner can change allow lists.")
          /\ UNCHANGED <<chatFrame, worlds, homes, _profiles>>
     ELSE IF action \notin {"add", "remove"}
     THEN /\ reply' = Said(user, "Usage: !world allow <WID> add|remove <username>")
          /\ UNCHANGED <<chatFrame, worlds, homes, _profiles>>
     ELSE /\ worlds' = Persist(worlds, [w EXCEPT !.allowed_users = allow])
          /\ reply' = Changed(user, "updated", {w.id}, {}, worlds', homes)
          /\ UNCHANGED <<chatFrame, homes, _profiles>>

\* the names the owners give their worlds: the first reads like the id of the
\* second world
NameLikeId == <<"W", "0", "0", "2">>
NameVale == <<"v", "a", "l", "e">>

\* the worlds ann and bob create
Creations == {<<"ann", NameLikeId, "private">>, <<"bob", NameVale, "public">>}

\* the ids and names the users type
WorldArgs == {<<"W", "0", "0", "1">>, <<"w", "0", "0", "2">>, <<" ", "V", "a", "l", "e">>}
HomeArgs == {<<"H", "0", "0", "1">>, <<"h", "u", "t", " ">>}
NameHut == <<"h", "u", "t">>

\* eve asks and builds homes; ann and bob own the worlds
Readers == {"eve"}

NextWorlds ==
  \/ \E user \in Readers : SetName(user)
  \/ \E user \in Readers, cmd \in {"!world list", "!population"} : WorldList(cmd, user)
  \/ \E user \in Readers : HomeList(user)
  \/ \E user \in Readers, cmd \in {"!stats", "!population", "!map"}, name \in WorldArgs :
       WorldQuery(cmd, user, name)
  \/ \E user \in Readers, cmd \in {"!home stats", "!home map"}, name \in HomeArgs :
       HomeQuery(cmd, user, name)
  \/ \E name \in WorldArgs : SelectWorld("eve", name)
  \/ \E c \in Creations : WorldCreate(c[1], c[2], c[3])
  \/ \E user \in Readers, world_id \in WorldArgs : HomeCreate(user, NameHut, world_id)
  \/ \E user \in ChatUsers, wid \in WorldArgs, mode \in {"public", "private"} :
       WorldLock(user, wid, mode)
  \/ \E user \in ChatUsers, wid \in WorldArgs, action \in {"add", "remove"} :
       WorldAllow(user, wid, action, "eve")

\* the chat engine reads neither the library nor HAS_PDF
SpecWorlds == InitWizard /\ [][NextWorlds]_vars

\* the worlds whose stored visibility or allow list a step changes
Relocked ==
  {i \in 1..Len(worlds) :
     \/ worlds'[i].visibility # worlds[i].visibility
     \/ worlds'[i].allowed_users # worlds[i].allowed_users}

\* the answers of "!world lock" and "!world allow" that report a change
LockedBodies == {"set", "updated"}

\* C33: only the owner of a world changes its visibility or its allow list.
\* Every step that changes the visibility or the allow list of a stored world
\* is a command of the owner of that world, a "!world lock" or "!world allow"
\* command reports a change only to the owner of the world it names, and
\* every other answer to such a command comes with state_changed = false and
\* the stored worlds as they were.
C33_OnlyOwnerLocks ==
  [][/\ \A i \in Relocked : worlds[i].owner = reply'.to
     /\ reply'.body \in LockedBodies =>
          \A wid \in reply'.worlds :
             \E i \in 1..Len(worlds) : worlds[i].id = wid /\ worlds[i].owner = reply'.to
     /\ reply'.body \notin LockedBodies \cup {"created"} =>
          worlds' = worlds /\ ~reply'.state_changed]_vars

\* bob was told that only the owner of ann's private world changes its allow
\* list, and the world is as it was
C33_Witness ==
  /\ reply.to = "bob"
  /\ reply.body = "Only the owner can change allow lists."
  /\ ~reply.state_changed
  /\ Len(worlds) = 2
  /\ worlds[1].owner = "ann" /\ worlds[1].visibility = "private"
  /\ worlds[1].allowed_users = <<"ann">>

\* the worlds and homes an answer shows, its state payload included
WorldsIn(r) == r.worlds \cup r.state.worlds
HomesIn(r) == r.homes \cup r.state.homes

\* the stored world with an id, and whether the user may see it
WorldOf(W, id) == W[FirstOf({i \in 1..Len(W) : W[i].id = id})]
HomeOf(H, id) == H[FirstOf({i \in 1..Len(H) : H[i].id = id})]
MaySee(W, id, user) ==
  LET w == WorldOf(W, id)
  IN w.visibility = "public" \/ w.owner = user \/ user \in Range(w.allowed_users)

\* C34: a private world is visible only to its owner and its allowed users.
\* Every answer and every state payload carries the data of a world, or of a
\* home in a world, only when the user it goes to may see that world, and a
\* home is created only in a world its creator may see.
C34_PrivateWorldHidden ==
  [][/\ \A wid \in WorldsIn(reply') : MaySee(worlds', wid, reply'.to)
     /\ \A hid \in HomesIn(reply') : MaySee(worlds', HomeOf(homes', hid).world, reply'.to)
     /\ Len(homes') > Len(homes) =>
          MaySee(worlds', homes'[Len(homes')].world, homes'[Len(homes')].owner)]_vars

\* str(pdf_path.relative_to(LIB_DIR)).replace("\\", "/") of index_single_pdf, on
\* the path of a file of the library below BASE_DIR: the key of its SELECT
FastPathRelpath(path) ==
  Replace(IF MatchAt(path, 1, LibPrefix) THEN From(path, Len(LibPrefix) + 1) ELSE path,
          <<"\\">>, <<"/">>)

\* C35: the single-document fast path and the sync identify a file by the
\* same relative-path key: the key the fast path has looked up for a PDF of
\* the library is the key under which the sync stores and finds that file.
C35_SameKey ==
  \A p \in Procs :
    (/\ pc[p] = "fastret"
     /\ fs[local[p].file].st = "file"
     /\ Lower(Suffix(local[p].file)) = ExtPdf) =>
      FastPathRelpath(RelToBase(local[p].file)) = RelToBase(local[p].file)



\* the texts of a session that cancels its wizard, and an answer
CancelTexts == {<<"c", "a", "n", "c", "e", "l">>, <<"!", "C", "a", "n", "c", "e", "l">>, <<"1">>}

\* beginner and home wizards whose sessions send cancel
NextCancel ==
  \/ \E sid \in Sids, text \in CancelTexts : WizardInput(sid, User, text)
  \/ \E sid \in Sids : CreateWorldWizard(sid, <<>>)
  \/ \E sid \in Sids, selected \in BOOLEAN : CreateHomeWizard(sid, selected)

SpecCancel == InitWizard /\ [][NextCancel]_vars

\* facet requests at any moment of the requests that change the store
NextFacets ==
  \/ ~facets.done /\ Requests
  \/ api_facets
  \/ FacetsReturn

SpecFacets == InitImage /\ [][NextFacets]_vars

\* ------------------------------------------------------------------------
\* Properties of sync
\* ------------------------------------------------------------------------
\* the text sync extracts from a file of the library ("" when it has none)
ExtractedText(name, uc) == extract_text(name, fs[name], uc, has_pdf).text

\* a file sync considers: present, with a supported extension
Scanned(name) ==
  /\ fs[name].st # "absent"
  /\ Lower(Suffix(name)) \in SupportedExts(has_pdf)

StoredPaths == {r.path : r \in docs}

\* C1 as stated: after a sync completes the stored paths are exactly the
\* supported files whose extracted (cleaned, with use_cleaner) text is non-empty.
C1_NonEmptyText ==
  \A p \in Procs : pc[p] = "ret" =>
    StoredPaths = {RelToBase(f) : f \in {g \in Files :
                     Scanned(g) /\ ExtractedText(g, local[p].uc) # <<>>}}

\* C1 amended: after a sync completes the stored paths are exactly the supported
\* files whose extracted (cleaned, with use_cleaner) text is not empty and not
\* whitespace-only.
C1_NonBlankText ==
  \A p \in Procs : pc[p] = "ret" =>
    StoredPaths = {RelToBase(f) : f \in {g \in Files :
                     Scanned(g) /\ Strip(ExtractedText(g, local[p].uc)) # <<>>}}

\* a raw sync has completed over a whitespace-only file and an indexed one
C1_Witness ==
  /\ pc[1] = "ret"
  /\ ~local[1].uc
  /\ fs[FileTxt] = FileOf(RawBlank)
  /\ RelToBase(FilePdf) \in StoredPaths
  /\ RelToBase(FileTxt) \notin StoredPaths

\* C2: a sync that follows a completed sync with the same use_cleaner, the
\* library unchanged in between, inserts, updates and removes nothing.
C2_Idempotent ==
  \A p \in Procs : (pc[p] = "ret" /\ local[p].prevSame) =>
    /\ local[p].inserted = 0
    /\ local[p].updated = 0
    /\ local[p].removed = 0

\* a second sync in a row has completed over a non-empty store
C2_Witness ==
  /\ pc[1] = "ret"
  /\ local[1].prevSame
  /\ local[1].file_count >= 2
  /\ Cardinality(docs) >= 2

\* C3: at no time are two syncs in progress at once.
C3_Serialized ==
  Cardinality({p \in Procs : pc[p] \in {"scan", "stale", "ret", "exc"}}) <= 1

\* C4: the full-text index holds exactly the ids of the documents table, each
\* with the title and the content of its document.
C4_IndexMirrorsTable ==
  /\ {e.rowid : e \in docs_fts} = {r.id : r \in docs}
  /\ \A e \in docs_fts : \A r \in docs :
       e.rowid = r.id => (e.title = r.title /\ e.content = r.content)
  /\ Cardinality(docs_fts) = Cardinality(docs)

\* a document has been updated after its insertion and another one deleted
C4_Witness ==
  /\ \E r \in docs : r.updated_at > r.created_at
  /\ \E p \in Procs : local[p].removed > 0

\* C5: the documents table holds at most one row per path.
C5_OneRowPerPath ==
  \A r1 \in docs : \A r2 \in docs : r1.path = r2.path => r1 = r2

\* two overlapping syncs tried to insert the same path; one was rejected
C5_Witness ==
  \E p \in Procs :
    /\ pc[p] = "exc"
    /\ local[p].error = "IntegrityError"
    /\ \E q \in Procs \ {p} : local[q].inserted > 0

\* C6: no sync is aborted by the failure to extract one file.
C6_ExtractionNeverAborts ==
  \A p \in Procs : pc[p] = "exc" => local[p].error # "OSError"

\* a file that had a record when the sync began and now extracts to blank text
BecameBlank(p, name) ==
  /\ RelToBase(name) \in local[p].had
  /\ Scanned(name)
  /\ Strip(ExtractedText(name, local[p].uc)) = <<>>

\* the stored paths a sync finds no indexable file for
Unbacked(p) ==
  {x \in local[p].had :
     ~\E f \in Files : /\ x = RelToBase(f)
                       /\ Scanned(f)
                       /\ Strip(ExtractedText(f, local[p].uc)) # <<>>}

\* the stored paths a sync finds no supported file for
Gone(p) ==
  {x \in local[p].had : ~\E f \in Files : x = RelToBase(f) /\ Scanned(f)}

\* C7 as stated: the record of a file that now extracts to blank text is left
\* in place by the sync and not counted in removed.
C7_StaleRecordKept ==
  \A p \in Procs : pc[p] = "ret" =>
    \A f \in Files : BecameBlank(p, f) =>
      /\ RelToBase(f) \in StoredPaths
      /\ local[p].removed = Cardinality(Gone(p))

\* C7 amended: the file is skipped by the scan, and its record is then deleted
\* with the stale records and counted in removed.
C7_BlankRecordRemoved ==
  \A p \in Procs : pc[p] = "ret" =>
    /\ local[p].removed = Cardinality(Unbacked(p))
    /\ \A f \in Files : BecameBlank(p, f) => RelToBase(f) \notin StoredPaths

\* a sync has completed over an indexed file that became blank
C7_Witness ==
  /\ pc[1] = "ret"
  /\ BecameBlank(1, FileTxt)
  /\ fs[FileTxt] = FileOf(RawBlank)
  /\ local[1].removed = 1

\* ------------------------------------------------------------------------
\* The query compiler on its own
\* ------------------------------------------------------------------------
\* the pieces query strings are put together from
Frags ==
  {<<"o", "r">>, <<"A", "N", "D">>, <<"N", "o", "t">>, <<"x">>, <<"h", "i">>,
   <<"a", "b", "c">>, <<" ">>, <<"\t">>, <<"\"">>, <<"-">>, <<"*">>, <<"_">>}

RECURSIVE FragStrings(_)
FragStrings(n) ==
  IF n = 0 THEN {<<>>}
  ELSE LET shorter == FragStrings(n - 1)
       IN shorter \cup {s \o f : s \in shorter, f \in Frags}

InitFts ==
  /\ fs = [f \in Files |-> Absent]
  /\ has_pdf = TRUE
  /\ docs = {}
  /\ docs_fts = {}
  /\ clock = 0
  /\ pc = [p \in Procs |-> "idle"]
  /\ local = [p \in Procs |-> IdleLocal]
  /\ REINDEX_STATE = [running |-> FALSE, message |-> "Ready.", started_at |-> None,
                      finished_at |-> None, last_error |-> "None"]
  /\ lastDone = "none"
  /\ compiled \in {NotCompiled(q) : q \in FragStrings(MaxFrags)}
  /\ search = NoSearch
  /\ cleaned = NotCleaned(<<>>)
  /\ safe = NotSafe(<<>>)
  /\ InitRest
  /\ sessions = NoSessions
  /\ parts = NoParts

\* q_fts = _ftsify(q_raw)
Compile ==
  /\ ~compiled.done
  /\ compiled' = Compiled(compiled.q_raw, _ftsify(compiled.q_raw))
  /\ UNCHANGED <<fs, has_pdf, docs, docs_fts, clock, pc, local, REINDEX_STATE, lastDone, search, restVars>>

NextFts == Compile

SpecFts == InitFts /\ [][NextFts]_vars

\* the positions where a whitespace-separated token of s starts and ends
TokenStarts(s) ==
  {i \in 1..Len(s) : s[i] \notin SpaceChars /\ (i = 1 \/ s[i - 1] \in SpaceChars)}

TokenEnds(s) ==
  {i \in 1..Len(s) : s[i] \notin SpaceChars /\ (i = Len(s) \/ s[i + 1] \in SpaceChars)}

\* the k-th smallest element of a set of numbers
Kth(S, k) == CHOOSE x \in S : Cardinality({y \in S : y < x}) = k - 1

\* the whitespace-separated tokens of s, in their order
TokensOf(s) ==
  [k \in 1..Cardinality(TokenStarts(s)) |->
     SubSeq(s, Kth(TokenStarts(s), k), Kth(TokenEnds(s), k))]

\* s contains AND, OR or NOT as a whole word, in any letter case
ContainsBoolWord(s) ==
  \E i \in 1..Len(s) : \E j \in i..Len(s) :
    /\ Lower(SubSeq(s, i, j)) \in {<<"a", "n", "d">>, <<"o", "r">>, <<"n", "o", "t">>}
    /\ (i = 1 \/ s[i - 1] \notin WordChars)
    /\ (j = Len(s) \/ s[j + 1] \notin WordChars)

ContainsQuote(s) == "\"" \in {s[i] : i \in 1..Len(s)}

\* the tokens of a compiled query that stand at the odd places
OddPlaces(seq) == [k \in 1..((Len(seq) + 1) \div 2) |-> seq[2 * k - 1]]

\* C8: a query without quote and without boolean word compiles to its tokens
\* in order, joined by " AND ", a token longer than 2 characters having one "*"
\* appended and a shorter one being unchanged.
C8_TokensAndWildcards ==
  (compiled.done /\ ~ContainsQuote(compiled.q_raw) /\ ~ContainsBoolWord(compiled.q_raw)) =>
    LET toks == TokensOf(compiled.q_raw)
        out == TokensOf(compiled.q_fts)
    IN /\ Len(out) = IF toks = <<>> THEN 0 ELSE 2 * Len(toks) - 1
       /\ \A k \in 1..Len(out) : k % 2 = 0 => out[k] = <<"A", "N", "D">>
       /\ \A k \in 1..Len(toks) :
            out[2 * k - 1] = IF Len(toks[k]) > 2 THEN toks[k] \o <<"*">> ELSE toks[k]
       /\ Len(compiled.q_fts) =
            IF toks = <<>> THEN 0
            ELSE Len(Join(OddPlaces(out), <<>>)) + 5 * (Len(toks) - 1)

\* a short and a long token have been compiled
C8_Witness ==
  /\ compiled.done
  /\ compiled.q_raw = <<"h", "i", " ", "a", "b", "c">>
  /\ compiled.q_fts = <<"h", "i", " ", "A", "N", "D", " ", "a", "b", "c", "*">>

Trimmed(s) ==
  LET keep == {i \in 1..Len(s) : s[i] \notin SpaceChars}
  IN IF keep = {} THEN <<>>
     ELSE SubSeq(s, Kth(keep, 1), Kth(keep, Cardinality(keep)))

C10_FallbackIffEmptyAndEnabled ==
  (search.done /\ search.q_raw # <<>>) =>
    /\ search.scanned <=> (search.rows = {} /\ search.include_like)
    /\ (search.rows # {} \/ ~search.include_like) => search.out = search.rows

\* a search found nothing in the index and answered from the substring scan
C10_Witness ==
  /\ search.done
  /\ search.q_raw = <<"w", "a">>
  /\ search.rows = {}
  /\ search.scanned
  /\ search.out # {}

\* C11: a query the full-text engine rejects is tried exactly once more, with
\* the constant rank, and every search ends with a result list: no exception
\* leaves the handler.  A query the engine accepts is executed once.
C11_RetryOnceNeverFails ==
  search.done =>
    /\ ~search.raised
    /\ search.q_raw # <<>> =>
         search.attempts = (IF FtsRejects(search.q_fts) THEN <<TRUE, FALSE>> ELSE <<TRUE>>)

\* C17: a response to a session that is not logged in, on any route but
\* /login, carries no data of the portal and its request changed nothing on
\* the server.
C17_LoginWall ==
  (response.anon /\ response.route \notin {"", "/login"}) =>
    /\ response.body = <<>>
    /\ ~response.changed

C15_FastPathIndexesOrSkips ==
  \A p \in Procs :
    (/\ pc[p] = "fastret"
     /\ fs[local[p].file].st = "file"
     /\ Lower(Suffix(local[p].file)) = ExtPdf) =>
      \/ local[p].status = "skipped" /\ local[p].error = "unchanged"
      \/ local[p].status = "indexed" /\ (\E d \in docs : d.path \in {local[p].file, RelToBase(local[p].file)})

\* C14: the status flag REINDEX_STATE["running"] is true exactly while some
\* reindex request is in progress, also when reindex requests overlap.
C14_RunningFlagExact ==
  REINDEX_STATE.running <=> \E p \in Procs : pc[p] # "idle" /\ local[p].route = "api"

\* C13: a search served at any moment of a running sync reads whole rows:
\* every row of its answer shows the id, title and path of one row of the
\* documents table together with that row's content as indexed, and every row
\* of the table that matches the query is in the answer, so no insert, update
\* or delete is seen half done.
C13_ReadersSeeWholeRows ==
  (search.done /\ search.q_raw # <<>> /\ ~search.raised) =>
    /\ \A r \in search.rows :
         \E d \in docs : /\ d.id = r.id
                         /\ d.title = r.title
                         /\ d.path = r.path
                         /\ d.content = r.snippet
    /\ \A d \in docs :
         FtsMatches(FtsLex(search.q_fts).toks, FtsEntry(d)) => \E r \in search.rows : r.id = d.id

\* a search answered from the index while a sync that has just updated a
\* document is still scanning
C13_Witness ==
  /\ search.done
  /\ search.rows # {}
  /\ pc[1] = "scan"
  /\ local[1].updated = 1

\* ------------------------------------------------------------------------
\* Properties of the facet counter
\* ------------------------------------------------------------------------
\* a document matches a facet when a word of its title or of its content
\* begins with one of the facet's keywords
HasKeyword(d, f) ==
  \E i \in 1..Len(FACET_DEFS[f]) :
    \/ \E k \in 1..Len(Unicode61(d.title, <<>>)) :
         MatchAt(Unicode61(d.title, <<>>)[k], 1, FACET_DEFS[f][i])
    \/ \E k \in 1..Len(Unicode61(d.content, <<>>)) :
         MatchAt(Unicode61(d.content, <<>>)[k], 1, FACET_DEFS[f][i])

\* C12: every answer of facets() gives, for every facet, the number of
\* documents of the table as it is at the call that match the facet's
\* keywords; no stored count is used, so a document with the word "ward"
\* committed just before the call is counted under Protection.
C12_FacetsLive ==
  facets.done =>
    \A f \in FacetNames : facets.counts[f] = Cardinality({d \in docs : HasKeyword(d, f)})

\* facets() was called inside a sync, right after the sync had inserted a
\* document with the word "ward" and before it recomputed any count
C12_Witness ==
  /\ facets.done
  /\ facets.counts["Protection"] = 1
  /\ pc[1] = "scan"
  /\ local[1].inserted = 1
  /\ \E d \in docs : d.content = RawWard

\* ------------------------------------------------------------------------
\* Properties of the chunked uploads
\* ------------------------------------------------------------------------
CallsOf(op) == {client.calls[i] : i \in {j \in 1..Len(client.calls) : client.calls[j].op = op}}

\* C18: when the server holds a session of the file with some of its chunks, a
\* run of the client that is not stopped asks the status of that session and
\* sends none of the chunks the session has
C18_ClientResumes ==
  (client.outcome \in {"complete", "failed"} /\ client.had # {}) =>
    \E h \in client.had :
      /\ \E c \in CallsOf("status") : c.id = h.id
      /\ \A c \in CallsOf("chunk") : c.idx \notin h.received

\* C19: completing a session whose part file has not the declared size
\* answers size_mismatch and leaves the state file, the part file and the
\* library as they were, and completing changes them only when the sizes agree
C19_CompleteChecksSize ==
  upload_resp.route = "complete" =>
    /\ upload_resp.mismatch => (upload_resp.error = "size_mismatch" /\ upload_resp.kept)
    /\ ~upload_resp.kept => ~upload_resp.mismatch

\* ------------------------------------------------------------------------
\* Properties of the World Builder
\* ------------------------------------------------------------------------
\* the number of questions of the world wizard that a session started last
Asked(sid) == Len(QUESTION_BANK[tally[sid].difficulty])

\* C20 as stated: the world of a wizard is created exactly with its 10th, 20th
\* or 30th valid answer: none before, exactly one then, and the wizard is no
\* longer active afterwards
C20_CreatedAtNthAnswer ==
  \A sid \in Sids :
    tally[sid].mode = "world" =>
      /\ tally[sid].valid < Asked(sid) => (tally[sid].created = 0 /\ _wizard[sid].active)
      /\ tally[sid].valid >= Asked(sid) => (tally[sid].created = 1 /\ ~_wizard[sid].active)

\* C20 amended: the world of a wizard is created exactly when the answer to
\* its last question is accepted, that is with the valid answer number 10, 20
\* or 30 plus the number of steps taken back: none before, exactly one then,
\* and the wizard is no longer active afterwards
C20_CreatedAtLastQuestion ==
  \A sid \in Sids :
    tally[sid].mode = "world" =>
      LET step == tally[sid].valid - tally[sid].backs
      IN /\ step <= Asked(sid)
         /\ step < Asked(sid) =>
              /\ tally[sid].created = 0
              /\ _wizard[sid].active
              /\ _wizard[sid].step = step
         /\ step = Asked(sid) =>
              /\ tally[sid].created = 1
              /\ ~_wizard[sid].active
              /\ \E i \in 1..Len(worlds) : worlds[i].tags[1] = tally[sid].difficulty

\* a medium wizard has created its world with its 21st valid answer, after
\* one step back
C20_Witness ==
  \E sid \in Sids :
    /\ tally[sid] = [mode |-> "world", difficulty |-> "medium", valid |-> 21, backs |-> 1,
                     created |-> 1, cancelled |-> FALSE]
    /\ ~_wizard[sid].active
    /\ Len(worlds) = 1

\* C21: after a session inside a wizard has sent cancel or !cancel, its
\* wizard is no longer active and has created no world and no home
C21_CancelStopsWizard ==
  \A sid \in Sids :
    tally[sid].cancelled => (~_wizard[sid].active /\ tally[sid].created = 0)

\* ------------------------------------------------------------------------
\* Properties of the text cleaner
\* ------------------------------------------------------------------------
\* the lowercase, uppercase and other letters of the alphabet of the model,
\* ASCII or not
LowerLetters == LowerChars \cup {EACUTE}
Letters == LetterChars \cup {EACUTE}

\* t has no newline, no white space at its ends and no run of spaces and tabs
Flowed(t) ==
  /\ \A i \in 1..Len(t) : t[i] # "\n"
  /\ t # <<>> => (t[1] \notin SpaceChars /\ t[Len(t)] \notin SpaceChars)
  /\ \A i \in 1..(Len(t) - 1) : ~(t[i] \in InlineWs /\ t[i + 1] \in InlineWs)

\* t has no character of lows followed by one of UpperChars, and no
\* punctuation mark followed by one of letters
Separated(t, lows, letters) ==
  \A i \in 1..(Len(t) - 1) :
    /\ ~(t[i] \in lows /\ t[i + 1] \in UpperChars)
    /\ ~(t[i] \in SentencePunct /\ t[i + 1] \in letters)

Blank(raw) == \A i \in 1..Len(raw) : raw[i] \in SpaceChars

\* C22 as stated: the text the cleaner returns is flowed, has no lowercase
\* letter followed by an uppercase letter and no punctuation mark followed by
\* a letter, and is empty for an empty or blank argument
C22_CanonicalForm ==
  cleaned.done =>
    /\ Flowed(cleaned.text)
    /\ Separated(cleaned.text, LowerLetters, Letters)
    /\ Blank(cleaned.raw) => cleaned.text = <<>>

\* C22 amended: the same with the letters a-z and A-Z of ASCII in place of
\* lowercase letters and letters
C22_CanonicalFormAscii ==
  cleaned.done =>
    /\ Flowed(cleaned.text)
    /\ Separated(cleaned.text, LowerChars, LetterChars)
    /\ Blank(cleaned.raw) => cleaned.text = <<>>

\* an argument with line breaks, a run of blanks, a lowercase-uppercase
\* boundary and a sentence end has been cleaned
C22_Witness ==
  /\ cleaned.done
  /\ cleaned.raw = <<"a", "B", ".", "a">>
  /\ cleaned.text = <<"a", " ", "B", ".", " ", "a">>

\* ------------------------------------------------------------------------
\* Frame and summary of a sync run alone
\* ------------------------------------------------------------------------
\* the file the scan of p stands at
Current(p) == local[p].listing[local[p].i]

\* the scan of p stands at the file of record r, which extracts to other text
Differs(p, r) ==
  /\ pc[p] = "scan"
  /\ r.path = RelToBase(Current(p))
  /\ \E e \in local[p].existing : e.path = r.path
  /\ Scanned(Current(p))
  /\ fs[Current(p)].st = "file"
  /\ Strip(ExtractedText(Current(p), local[p].uc)) # <<>>
  /\ ExtractedText(Current(p), local[p].uc) # r.content

\* the file of record r is in the library and extracts to the content of r
SameAsStored(p, r) ==
  \E f \in Files :
    /\ r.path = RelToBase(f)
    /\ Scanned(f)
    /\ fs[f].st = "file"
    /\ ExtractedText(f, local[p].uc) = r.content

\* C23: the step of a sync over a file whose record has other content changes
\* the title, the content and updated_at of that record only: its id, path and
\* created_at stay, and every other record stays as it is.
C23_UpdateFrame ==
  [][\A p \in Procs : \A r \in docs :
       (Differs(p, r) /\ local'[p] # local[p]) =>
         \E n \in docs' :
           /\ docs' \ {n} = docs \ {r}
           /\ n.id = r.id /\ n.path = r.path /\ n.created_at = r.created_at
           /\ n.content = ExtractedText(Current(p), local[p].uc)
           /\ n.title = title_from_path(Current(p))
           /\ n.updated_at = clock
           /\ local'[p].updated = local[p].updated + 1]_vars

\* a record was updated later than it was created while another record stayed
C23_Witness ==
  /\ local[1].updated = 1
  /\ Cardinality(docs) = 2
  /\ \E r \in docs : r.created_at = 0 /\ r.updated_at = 1 /\ r.content = RawCamel

C25_SummaryAdds ==
  \A p \in Procs : pc[p] = "ret" =>
    /\ local[p].total_docs = Cardinality(docs)
    /\ local[p].total_docs = Cardinality(local[p].had) + local[p].inserted - local[p].removed
    /\ local[p].inserted + local[p].updated <= local[p].file_count

\* a sync has completed that inserted a record and removed another
C25_Witness ==
  /\ pc[1] = "ret"
  /\ local[1].inserted = 1
  /\ local[1].removed = 1
  /\ local[1].total_docs = 1

\* ------------------------------------------------------------------------
\* The cached facet counts
\* ------------------------------------------------------------------------
\* C26: when a sync has completed, the doc_count stored for every facet is
\* the number of documents that match the facet.
C26_CachedCountsExact ==
  \A p \in Procs : pc[p] = "ret" =>
    \A f \in FacetNames : facet_meta[f] = _facet_counts(docs, docs_fts)[f]

\* ------------------------------------------------------------------------
\* The snippets of the substring fallback
\* ------------------------------------------------------------------------
\* snippet is text, escaped, between two ellipses, with the part of it that
\* is the query, in any letter case, between the highlight markers
Highlights(snippet, text, q_raw) ==
  \E i \in 0..Len(text) : \E j \in i..Len(text) :
    /\ Lower(SubSeq(text, i + 1, j)) = Lower(q_raw)
    /\ snippet = <<HELLIP>> \o HtmlEscape(SubSeq(text, 1, i)) \o MarkOpen
                 \o HtmlEscape(SubSeq(text, i + 1, j)) \o MarkClose
                 \o HtmlEscape(From(text, j + 1)) \o <<HELLIP>>

\* C27: every result of the substring fallback has rank 0 and a snippet that
\* is the escaped text around the match with the matched substring between
\* <mark> and </mark>, whatever characters the query holds.
C27_SnippetEscapedAndMarked ==
  (search.done /\ search.scanned) =>
    \A r \in search.out :
      /\ r.rank = 0
      /\ \E d \in docs : d.id = r.id /\ Highlights(r.snippet, d.content, search.q_raw)

StrictlySorted(seq) == \A i \in 1..(Len(seq) - 1) : seq[i] < seq[i + 1]

\* the indexes of request to the chunk route in the model
ChunkIndexes == {-1, 0, 1}

\* C29: every chunk request leaves the received list of every session sorted
\* and without duplicates; a request for a session that exists, with a chunk
\* and an index that is not negative, is accepted and leaves in received the
\* indexes it held and the index sent, and nothing else changes in it when
\* the index was there; every other request is rejected and leaves the state
\* files and the part files as they were.
C29_ReceivedTracksChunks ==
  [][\A id \in UploadIds, has_chunk \in BOOLEAN, idx \in ChunkIndexes :
       UploadChunk(id, has_chunk, idx, ChunkOf(ClientRaw, UPLOAD_CHUNK_SIZE, Max(idx, 0))) =>
         /\ \A u \in UploadIds : StrictlySorted(sessions'[u].received)
         /\ (sessions[id].exists /\ has_chunk /\ idx >= 0) =>
              /\ upload_resp'.status = 200
              /\ Range(sessions'[id].received) = Range(sessions[id].received) \cup {idx}
              /\ idx \in Range(sessions[id].received) => sessions' = sessions
         /\ ~(sessions[id].exists /\ has_chunk /\ idx >= 0) =>
              /\ upload_resp'.status # 200
              /\ sessions' = sessions
              /\ parts' = parts]_vars

\* the chunk indexes that cover the declared size of a session
NeededChunks(state) ==
  0..(((state.total_size + state.chunk_size - 1) \div state.chunk_size) - 1)

\* the session exists and a chunk of it has not been received
MissingChunk(id) ==
  /\ sessions[id].exists
  /\ \E i \in NeededChunks(sessions[id]) : i \notin Range(sessions[id].received)

PathParts(path) == IF path = <<>> THEN <<>> ELSE SplitAt(path, "/", <<>>)

\* the sanitized path has no leading slash, no backslash and no component "",
\* "." or ".."
Harmless(path) ==
  /\ path # <<>> => path[1] # "/"
  /\ \A i \in 1..Len(path) : path[i] # "\\"
  /\ \A i \in 1..Len(PathParts(path)) :
       PathParts(path)[i] \notin {<<>>, <<".">>, <<".", ".">>}

\* LIB_DIR / path is a path below LIB_DIR
UnderLibrary(path) == Harmless(path) /\ Len(PathParts(path)) >= 1

\* C32 as stated: the sanitized path has no leading slash, no backslash and no
\* component "", "." or "..", the destination LIB_DIR / path lies under the
\* library directory, and sanitizing the sanitized path returns it unchanged.
C32_SanitizedUnderLibrary ==
  safe.done =>
    /\ Harmless(safe.out)
    /\ UnderLibrary(safe.out)
    /\ _safe_relpath(safe.out) = safe.out

\* C32 amended: the same, but the destination lies under the library
\* directory when the sanitized path is not empty, and is the library
\* directory itself when it is empty.
C32_SanitizedWithinLibrary ==
  safe.done =>
    /\ Harmless(safe.out)
    /\ safe.out # <<>> => UnderLibrary(safe.out)
    /\ _safe_relpath(safe.out) = safe.out

\* a path with a backslash, a leading slash and a parent component has been
\* sanitized to a component of its own
C32_Witness ==
  /\ safe.done
  /\ safe.relpath = <<"\\", ".", ".", "/", "a">>
  /\ safe.out = <<"a">>

====
